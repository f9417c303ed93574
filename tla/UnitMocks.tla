----------------------------- MODULE UnitMocks -----------------------------
(***************************************************************************)
(* The mocks and wrappers the unit tests put around umqtt                  *)
(* (unit_test/umqtt_mocks.c, umqtt_wrapper.c), from test to test.          *)
(*                                                                         *)
(* The mocks live in globals that outlast a test; the buffers they point to*)
(* do not.  The body of a test is a script: the sequence of what it does   *)
(* with the mocks and of the calls it makes.  The scripts are parameters   *)
(* here; those of the tests are in UnitTests.  A test may end at any       *)
(* assertion, and its tear-down frees its buffers and leaves the mocks as  *)
(* they are; a pointer to a freed buffer is Freed from then on.            *)
(*                                                                         *)
(* umqtt is external: what a call does to the mocks and to its list of     *)
(* packets is what the tests say it does.  The length of a packet is       *)
(* PktLen, whatever the packet.                                            *)
(***************************************************************************)
EXTENDS Integers, Sequences, SequencesExt, Functions

CONSTANTS
    PktBuf,         \* the packet buffers of a test
    PacketId, Type, \* of an MQTT packet
    PktLen,
    Bodies,         \* the scripts of the tests
    InstanceBodies, \* ... and of those of the group Instance
    NULL, Freed, Wild   \* the null pointer, one to a buffer that was freed, and
                        \* what lies behind the array of mock_malloc

Buffer == PktBuf \cup {"instBuf", "clientBuf"}
Pointer == Buffer \cup {NULL}
Memory == Buffer \cup {Wild}

CONNECT == 1

\* A step of a body: a write to a mock's globals, or a call of a wrapper or of umqtt.
Step ==
    [op : {"stage"}, bufs : Seq(Buffer)]
      \cup [op : {"reset"}, mocks : SUBSET {"malloc", "free", "read", "write"}]
      \cup [op : {"returns"}, len : Nat]
      \cup [op : {"copyTo"}, buf : Buffer]
      \cup [op : {"receive"}, buf : Pointer, len : Int]
      \cup [op : {"setConnected"}, connected : BOOLEAN]
      \cup [op : {"setKeepAlive"}, keepAlive : Nat]
      \cup [op : {"enqueuePacket", "send"}, packetId : PacketId, type : Type]
      \cup [op : {"dequeuePacketById", "ack"}, packetId : PacketId]
      \cup [op : {"dequeuePacketByType"}, type : Type]
      \cup [op : {"connack"}, accepted : BOOLEAN]
      \cup [op : {"Run"}, due : {"nothing", "ping", "resend", "expire"}, acks : SUBSET PacketId]
      \cup [op : {"New", "newPacket", "deletePacket", "Connect", "publish", "Disconnect"}]

ASSUME PointerAssumption ==
    NULL \notin Buffer /\ Freed \notin Pointer \cup {Wild} /\ Wild \notin Pointer
ASSUME PacketAssumption == CONNECT \in Type /\ 0 \in PacketId /\ PktLen \in Nat \ {0}
ASSUME BodiesAssumption == Bodies \subseteq Seq(Step) /\ InstanceBodies \subseteq Seq(Step)

VARIABLES
    malloc, free, read, write,  \* the globals mock_malloc_..., mock_free_..., ...
    hNet,                       \* mock_hNet, transportConfig.hNet
    h,                          \* the instance, or NULL
    this,                       \* external: its pktList, isConnected and keepAlive
    held,                       \* the packets the test has, in the order it got them
    phase,                      \* where the test runner is
    script,                     \* what is left of the body
    called                      \* history: the mocks called in this test

mocks == <<malloc, free, read, write>>
vars == <<mocks, hNet, h, this, held, phase, script, called>>

\* A packet in umqtt's list: its PktBuf_t and the type in its first byte.
Packet == [buf : Memory, packetId : PacketId, type : Type]

SIZE_INSTBUF == 200
Uint16 == 0..(2^16 - 1)

-----------------------------------------------------------------------------
(* The mocks, as functions of their globals.                               *)

\* All globals are zero when the program starts.
MallocZero == [shouldReturn |-> [i \in 0..2 |-> NULL], count |-> 0, in_size |-> 0]
FreeZero == [wasCalled |-> FALSE, in_ptr |-> NULL]
ReadZero == [wasCalled |-> FALSE, in_hNet |-> NULL, pBuf |-> NULL, shouldReturn |-> 0]
WriteZero == [wasCalled |-> FALSE, in_hNet |-> NULL, in_pBuf |-> NULL, in_len |-> 0,
              in_isMore |-> FALSE, shouldReturn |-> 0, pCopy |-> NULL, copyLen |-> 0]

\* (Bug: one entry too many is cleared.)
mock_malloc_ResetPast(m) == [MallocZero EXCEPT !.shouldReturn = [i \in 0..3 |-> NULL]]
mock_malloc_Reset(m) == MallocZero

\* (Bug: the count stays.)
mock_mallocUncounted(m, size) == [m EXCEPT !.in_size = size]
mock_malloc(m, size) == [m EXCEPT !.in_size = size, !.count = @ + 1]

\* What mock_malloc returns: the index is not tested.
MallocResult(m) == IF m.count < 3 THEN m.shouldReturn[m.count] ELSE Wild

\* (Bug: the flag stays.)
mock_free_ResetPtr(f) == [FreeZero EXCEPT !.wasCalled = f.wasCalled]
mock_free_Reset(f) == FreeZero
mock_free(ptr) == [wasCalled |-> TRUE, in_ptr |-> ptr]

mock_NetRead_Reset == ReadZero
mock_NetRead(r) == [r EXCEPT !.wasCalled = TRUE, !.in_hNet = hNet]

\* (Bug: the destination of the copy stays.)
mock_NetWrite_ResetIn(w) == [WriteZero EXCEPT !.pCopy = w.pCopy]
mock_NetWrite_Reset(w) == WriteZero

\* in_len is a uint16_t; what is copied to pCopy is not kept here.
mock_NetWrite(w, pBuf, len, isMore) ==
    [w EXCEPT !.wasCalled = TRUE, !.in_hNet = hNet, !.in_pBuf = pBuf,
              !.in_len = len % 2^16, !.in_isMore = isMore]

-----------------------------------------------------------------------------
(* The life of a test.                                                     *)

NoInstance == [pktList |-> <<>>, isConnected |-> FALSE, keepAlive |-> 0]

Init ==
    /\ malloc = MallocZero /\ free = FreeZero /\ read = ReadZero /\ write = WriteZero
    /\ hNet = NULL /\ h = NULL /\ this = NoInstance
    /\ held = <<>> /\ phase = "setup" /\ script = <<>> /\ called = {}

\* umqtt_New asks mock_malloc for its instance.
umqtt_New(m) == malloc' = mock_malloc(m, SIZE_INSTBUF) /\ h' = MallocResult(m)

\* TEST_SETUP up to its first assertion: it stages instBuf, which its own malloc
\* may have failed to get.
SetupNew ==
    /\ phase = "setup"
    /\ \E instBuf \in {"instBuf", NULL} :
         umqtt_New([mock_malloc_Reset(malloc) EXCEPT !.shouldReturn[0] = instBuf])
    /\ hNet' = "hNet" /\ this' = NoInstance
    /\ phase' = IF h' = NULL THEN "teardown" ELSE "reset"
    /\ UNCHANGED <<free, read, write, held, script, called>>

\* "clear all mocks", then the packet buffers, one of which may not be had.
SetupReset ==
    /\ phase = "reset"
    /\ malloc' = mock_malloc_Reset(malloc) /\ free' = mock_free_Reset(free)
    /\ read' = mock_NetRead_Reset /\ write' = mock_NetWrite_Reset(write)
    /\ \/ phase' = "body" /\ script' \in Bodies
       \/ phase' = "teardown" /\ UNCHANGED script
    /\ UNCHANGED <<hNet, h, this, held, called>>

\* A test of the group Instance has no instance yet.
SetupInstance ==
    /\ phase = "setup"
    /\ malloc' = mock_malloc_Reset(malloc) /\ free' = mock_free_Reset(free)
    /\ read' = mock_NetRead_Reset /\ write' = mock_NetWrite_Reset(write)
    /\ hNet' = "hNet" /\ phase' = "body" /\ script' \in InstanceBodies
    /\ UNCHANGED <<h, this, held, called>>

\* An assertion fails, or the body is done.
BodyEnds ==
    /\ phase = "body"
    /\ phase' = "teardown" /\ script' = <<>>
    /\ UNCHANGED <<mocks, hNet, h, this, held, called>>

\* A pointer after the buffers were freed.
Dangling(p) == IF p = NULL THEN NULL ELSE Freed

TearDown ==
    /\ phase = "teardown"
    /\ malloc' = [malloc EXCEPT !.shouldReturn = [i \in 0..2 |-> Dangling(@[i])]]
    /\ free' = [free EXCEPT !.in_ptr = Dangling(@)]
    /\ read' = [read EXCEPT !.pBuf = Dangling(@)]
    /\ write' = [write EXCEPT !.in_pBuf = Dangling(@), !.pCopy = Dangling(@)]
    /\ h' = NULL /\ this' = NoInstance
    /\ held' = <<>> /\ called' = {} /\ phase' = "setup"
    /\ UNCHANGED <<hNet, script>>

-----------------------------------------------------------------------------
(* What a body does: it sets up the mocks ...                              *)

step == Head(script)

\* The body goes on to what comes next, an operation op.
Do(op) ==
    /\ phase = "body" /\ script # <<>> /\ step.op = op
    /\ script' = Tail(script)
    /\ UNCHANGED <<hNet, phase>>

\* The entries of the array that are written, from the first; the count stays.
StageMalloc ==
    /\ Do("stage")
    /\ malloc' = [malloc EXCEPT !.shouldReturn =
                     [i \in 0..2 |-> IF i < Len(step.bufs) THEN step.bufs[i + 1] ELSE @[i]]]
    /\ UNCHANGED <<free, read, write, h, this, held, called>>

ResetMocks ==
    /\ Do("reset")
    /\ malloc' = IF "malloc" \in step.mocks THEN mock_malloc_Reset(malloc) ELSE malloc
    /\ free' = IF "free" \in step.mocks THEN mock_free_Reset(free) ELSE free
    /\ read' = IF "read" \in step.mocks THEN mock_NetRead_Reset ELSE read
    /\ write' = IF "write" \in step.mocks THEN mock_NetWrite_Reset(write) ELSE write
    /\ UNCHANGED <<h, this, held, called>>

StageReturn ==
    /\ Do("returns")
    /\ write' = [write EXCEPT !.shouldReturn = step.len]
    /\ UNCHANGED <<malloc, free, read, h, this, held, called>>

StageCopy ==
    /\ Do("copyTo")
    /\ write' = [write EXCEPT !.pCopy = step.buf, !.copyLen = PktLen]
    /\ UNCHANGED <<malloc, free, read, h, this, held, called>>

StageRead ==
    /\ Do("receive")
    /\ read' = [read EXCEPT !.pBuf = step.buf, !.shouldReturn = step.len]
    /\ UNCHANGED <<malloc, free, write, h, this, held, called>>

-----------------------------------------------------------------------------
(* ... calls umqtt through the wrappers ...                                *)

InstanceNew ==
    /\ Do("New") /\ h = NULL
    /\ umqtt_New(malloc)
    /\ called' = called \cup {"malloc"}
    /\ UNCHANGED <<free, read, write, this, held>>

\* 5 bytes of MQTT header and sizeof(PktBuf_t) are added.
PacketSize == PktLen + 5 + 24

wrap_newPacket ==
    /\ Do("newPacket")
    /\ malloc' = mock_malloc(malloc, PacketSize)
    /\ held' = IF MallocResult(malloc) = NULL THEN held ELSE Append(held, MallocResult(malloc))
    /\ called' = called \cup {"malloc"}
    /\ UNCHANGED <<free, read, write, h, this>>

\* The wrappers that take a packet are given the one the test has had longest, or
\* NULL, which they ignore.
wrap_deletePacket ==
    /\ Do("deletePacket")
    /\ \/ held = <<>> /\ UNCHANGED <<free, held, called>>
       \/ /\ held # <<>>
          /\ held' = Tail(held) /\ free' = mock_free(Head(held))
          /\ called' = called \cup {"free"}
    /\ UNCHANGED <<malloc, read, write, h, this>>

Push(buf, id, t) == <<[buf |-> buf, packetId |-> id, type |-> t]>> \o this.pktList

wrap_enqueuePacket ==
    /\ Do("enqueuePacket")
    /\ \/ held = <<>> /\ UNCHANGED <<this, held>>
       \/ /\ held # <<>>
          /\ held' = Tail(held)
          /\ this' = [this EXCEPT !.pktList = Push(Head(held), step.packetId, step.type)]
    /\ UNCHANGED <<mocks, h, called>>

WithId(ids) == {i \in DOMAIN this.pktList : this.pktList[i].packetId \in ids}
WithType(t) == {i \in DOMAIN this.pktList : this.pktList[i].type = t}

\* The list without the first packet that matches.
Without(matches) ==
    IF matches = {} THEN this.pktList ELSE RemoveAt(this.pktList, Min(matches))

\* The first packet that matches leaves the list; the test has it.
Dequeue(matches) ==
    /\ this' = [this EXCEPT !.pktList = Without(matches)]
    /\ held' = IF matches = {} THEN held ELSE Append(held, this.pktList[Min(matches)].buf)
    /\ UNCHANGED <<mocks, h, called>>

wrap_dequeuePacketById == Do("dequeuePacketById") /\ Dequeue(WithId({step.packetId}))
wrap_dequeuePacketByType == Do("dequeuePacketByType") /\ Dequeue(WithType(step.type))

wrap_setConnected ==
    /\ Do("setConnected")
    /\ this' = [this EXCEPT !.isConnected = step.connected]
    /\ UNCHANGED <<mocks, h, held, called>>

wrap_setKeepAlive ==
    /\ Do("setKeepAlive")
    /\ this' = [this EXCEPT !.keepAlive = step.keepAlive]
    /\ UNCHANGED <<mocks, h, held, called>>

-----------------------------------------------------------------------------
(* ... and through its API.                                                *)

\* A write is good when the transport took the whole packet.
Sent == write.shouldReturn = PktLen

\* umqtt_Connect does nothing when it is connected or a CONNECT is pending.  It asks
\* for two buffers; the first it sends and frees, the second is listed until the
\* CONNACK, or freed when the write failed.  No test stages one buffer only.
umqtt_Connect ==
    LET first == MallocResult(malloc)
        once == mock_malloc(malloc, PacketSize)
        second == MallocResult(once)
        idle == ~this.isConnected /\ WithType(CONNECT) = {}
    IN  /\ Do("Connect")
        /\ \/ ~idle /\ UNCHANGED <<mocks, this, called>>
           \/ /\ idle /\ first = NULL
              /\ malloc' = once /\ called' = called \cup {"malloc"}
              /\ UNCHANGED <<free, read, write, this>>
           \/ /\ idle /\ first # NULL /\ second # NULL
              /\ malloc' = mock_malloc(once, PacketSize)
              /\ write' = mock_NetWrite(write, first, PktLen, FALSE)
              /\ free' = mock_free(IF Sent THEN first ELSE second)
              /\ this' = IF Sent THEN [this EXCEPT !.pktList = Push(second, 0, CONNECT)] ELSE this
              /\ called' = called \cup {"malloc", "write", "free"}
              /\ UNCHANGED read
        /\ UNCHANGED <<h, held>>

\* umqtt_Publish, umqtt_Subscribe and umqtt_Unsubscribe: what was sent is listed until
\* its acknowledgement, unless it is a PUBLISH of QoS 0, which has no packet id.
Send ==
    LET buf == MallocResult(malloc)
        listed == Sent /\ step.packetId # 0
    IN  /\ Do("send") /\ this.isConnected
        /\ malloc' = mock_malloc(malloc, PacketSize)
        /\ \/ /\ buf = NULL
              /\ called' = called \cup {"malloc"} /\ UNCHANGED <<free, write, this>>
           \/ /\ buf # NULL
              /\ write' = mock_NetWrite(write, buf, PktLen, FALSE)
              /\ free' = IF listed THEN free ELSE mock_free(buf)
              /\ this' = IF listed
                            THEN [this EXCEPT !.pktList = Push(buf, step.packetId, step.type)]
                            ELSE this
              /\ called' = called \cup {"malloc", "write"} \cup (IF listed THEN {} ELSE {"free"})
        /\ UNCHANGED <<read, h, held>>

\* umqtt_DecodePacket, given an acknowledgement: the packet it is for leaves the list
\* and is freed.
Acknowledged(matches, connected) ==
    /\ this' = [this EXCEPT !.pktList = Without(matches), !.isConnected = connected]
    /\ free' = IF matches = {} THEN free ELSE mock_free(this.pktList[Min(matches)].buf)
    /\ called' = called \cup (IF matches = {} THEN {} ELSE {"free"})
    /\ UNCHANGED <<malloc, read, write, h, held>>

DecodeConnack == Do("connack") /\ Acknowledged(WithType(CONNECT), step.accepted)
DecodeAck == Do("ack") /\ Acknowledged(WithId({step.packetId}), this.isConnected)

\* What umqtt writes from its stack.
Write ==
    /\ write' = mock_NetWrite(write, "stack", PktLen, FALSE)
    /\ called' = called \cup {"write"}

\* A PUBLISH of QoS 1 is answered by a PUBACK.
DecodePublish ==
    /\ Do("publish") /\ Write
    /\ UNCHANGED <<malloc, free, read, h, this, held>>

umqtt_Disconnect ==
    /\ Do("Disconnect") /\ Write
    /\ this' = [this EXCEPT !.isConnected = @ /\ ~Sent]
    /\ UNCHANGED <<malloc, free, read, h, held>>

\* umqtt_Run reads.  What it got it decodes and frees.
RunReceives ==
    /\ Do("Run") /\ read.shouldReturn > 0
    /\ read' = mock_NetRead(read)
    /\ this' = [this EXCEPT !.pktList = Without(WithId(step.acks))]
    /\ free' = mock_free(read.pBuf)
    /\ called' = called \cup {"read", "free"}
    /\ UNCHANGED <<malloc, write, h, held>>

\* When there was nothing it pings, sends the next packet of its list again or gives
\* that packet up, as the time asks for.
RunTimed ==
    /\ Do("Run") /\ read.shouldReturn <= 0
    /\ read' = mock_NetRead(read)
    /\ \/ /\ step.due = "nothing"
          /\ called' = called \cup {"read"} /\ UNCHANGED <<free, write, this>>
       \/ /\ step.due = "ping"
          /\ write' = mock_NetWrite(write, "stack", PktLen, FALSE)
          /\ called' = called \cup {"read", "write"} /\ UNCHANGED <<free, this>>
       \/ /\ step.due = "resend" /\ this.pktList # <<>>
          /\ write' = mock_NetWrite(write, Head(this.pktList).buf, PktLen, FALSE)
          /\ called' = called \cup {"read", "write"} /\ UNCHANGED <<free, this>>
       \/ /\ step.due = "expire" /\ this.pktList # <<>>
          /\ this' = [this EXCEPT !.pktList = Tail(@)]
          /\ free' = mock_free(Head(this.pktList).buf)
          /\ called' = called \cup {"read", "free"} /\ UNCHANGED write
    /\ UNCHANGED <<malloc, h, held>>

Next ==
    \/ SetupNew \/ SetupReset \/ SetupInstance \/ BodyEnds \/ TearDown
    \/ StageMalloc \/ ResetMocks \/ StageReturn \/ StageCopy \/ StageRead
    \/ InstanceNew \/ wrap_newPacket \/ wrap_deletePacket \/ wrap_enqueuePacket
    \/ wrap_dequeuePacketById \/ wrap_dequeuePacketByType
    \/ wrap_setConnected \/ wrap_setKeepAlive
    \/ umqtt_Connect \/ Send \/ DecodeConnack \/ DecodeAck \/ DecodePublish
    \/ umqtt_Disconnect \/ RunReceives \/ RunTimed

Spec == Init /\ [][Next]_vars

-----------------------------------------------------------------------------
Listed == {this.pktList[i].buf : i \in DOMAIN this.pktList}
Held == {held[i] : i \in DOMAIN held}
Staged == {malloc.shouldReturn[i] : i \in 0..2}

\* The globals of the mocks keep to their types: the array has its three entries.
TypeOK ==
    /\ malloc.shouldReturn \in [0..2 -> Pointer \cup {Freed}] /\ malloc.count \in Nat
    /\ free \in [wasCalled : BOOLEAN, in_ptr : Pointer \cup {Freed, Wild}]
    /\ read.pBuf \in Pointer \cup {Freed} /\ read.in_hNet \in {NULL, "hNet"}
    /\ write.pCopy \in Pointer \cup {Freed} /\ write.in_len \in Uint16
    /\ this.pktList \in Seq(Packet) /\ held \in Seq(Memory)
    /\ phase \in {"setup", "reset", "body", "teardown"}

\* The tests use the same few buffers again and again, stage them with or without a
\* reset, and count on umqtt to take what it should.  Still a buffer is in one place:
\* the test has it, or it is in umqtt's list, and there once (or the list would be a
\* ring), and then no mock hands it out again, reads a packet into it or copies one
\* over it.  No call asks mock_malloc, which does not look, for more than it has.
PacketsHaveOneOwner ==
    /\ IsInjective([i \in DOMAIN this.pktList |-> this.pktList[i].buf])
    /\ IsInjective(held) /\ Held \cap Listed = {}
    /\ \A i \in 0..2 : i >= malloc.count => malloc.shouldReturn[i] \notin Held \cup Listed
    /\ {read.pBuf, write.pCopy} \cap (Held \cup Listed) = {}
    /\ malloc.count <= 3

\* No mock gives umqtt a buffer of an earlier test, or copies a packet into one,
\* although each test leaves the mocks pointing to what it frees.
OnlyLiveMemory ==
    phase = "body" =>
        Freed \notin {h, write.pCopy, read.pBuf} \cup Staged \cup Held \cup Listed

\* A test that asserts that a mock was called sees calls of its own only, even
\* after a test or a set-up that was cut short by a failing assertion.
CallsAreOfThisTest ==
    phase = "body" =>
        /\ free.wasCalled => "free" \in called
        /\ read.wasCalled => "read" \in called
        /\ write.wasCalled => "write" \in called
        /\ malloc.count > 0 => "malloc" \in called
=============================================================================
