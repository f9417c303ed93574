----------------------------- MODULE UnitTests -----------------------------
(***************************************************************************)
(* The bodies of the unit tests (unit_test/umqtt_*_test.c) as scripts of   *)
(* UnitMocks, one for each way a test uses the mocks: tests that differ in *)
(* the contents of the packets only share a script, and calls that umqtt   *)
(* rejects for their parameters, before it uses a mock, are left out.      *)
(*                                                                         *)
(* b1 is pktBuf or pktBuf1, b2 is &pktBuf[900] or pktBuf2 and b3 pktBuf3.  *)
(* clientBuf is another buffer.                                            *)
(***************************************************************************)
EXTENDS UnitMocks

CONSTANTS b1, b2, b3

-----------------------------------------------------------------------------
(* The steps.                                                              *)

Stage(bufs) == [op |-> "stage", bufs |-> bufs]
Reset(names) == [op |-> "reset", mocks |-> names]
Returns == [op |-> "returns", len |-> PktLen]
CopyTo(buf) == [op |-> "copyTo", buf |-> buf]
Receive(buf, len) == [op |-> "receive", buf |-> buf, len |-> len]
SetConnected == [op |-> "setConnected", connected |-> TRUE]
SetKeepAlive == [op |-> "setKeepAlive", keepAlive |-> 1000]
NewPacket == [op |-> "newPacket"]
DeletePacket == [op |-> "deletePacket"]
Enqueue(id, t) == [op |-> "enqueuePacket", packetId |-> id, type |-> t]
DequeueById(id) == [op |-> "dequeuePacketById", packetId |-> id]
DequeueByType(t) == [op |-> "dequeuePacketByType", type |-> t]
New == [op |-> "New"]
Connect == [op |-> "Connect"]
Disconnect == [op |-> "Disconnect"]
Publish(id) == [op |-> "send", packetId |-> id, type |-> 3]
Subscribe(id) == [op |-> "send", packetId |-> id, type |-> 8]
Unsubscribe(id) == [op |-> "send", packetId |-> id, type |-> 10]
Connack(accepted) == [op |-> "connack", accepted |-> accepted]
Ack(id) == [op |-> "ack", packetId |-> id]
PublishQos1Received == [op |-> "publish"]
Run(due) == [op |-> "Run", due |-> due, acks |-> {}]
RunAcks(id) == [op |-> "Run", due |-> "nothing", acks |-> {id}]

-----------------------------------------------------------------------------
(* umqtt_packet_handling_test.c                                            *)

NewPacketNull == <<Stage(<<b1>>)>>
DeletePacketNull == <<DeletePacket, Reset({"free"}), DeletePacket>>
NewAndDelete == <<Stage(<<b1>>), NewPacket, DeletePacket>>
EnqueueNull == <<Enqueue(0, 3)>>
EnqueueNominal == <<Stage(<<b1>>), NewPacket, Enqueue(11, 3)>>
EnqueueTwo == <<Stage(<<b1, b2>>), NewPacket, Enqueue(11, 3), NewPacket, Enqueue(22, 3)>>
DequeueByIdBadId == EnqueueNominal \o <<DequeueById(0)>>
DequeueByIdGood == EnqueueNominal \o <<DequeueById(11)>>
DequeueByTypeBadType == EnqueueNominal \o <<DequeueByType(1)>>
DequeueByTypeGood == EnqueueNominal \o <<DequeueByType(3)>>
DequeueMultiple ==
    <<Stage(<<b1, b2, b3>>), NewPacket, NewPacket, NewPacket,
      Enqueue(11, 1), Enqueue(22, 2), Enqueue(33, 3),
      DequeueById(22), DequeueByType(3), DequeueByType(3), DequeueByType(1)>>

PacketHandlingTests ==
    {NewPacketNull, DeletePacketNull, NewAndDelete, EnqueueNull, EnqueueNominal, EnqueueTwo,
     DequeueByIdBadId, DequeueByIdGood, DequeueByTypeBadType, DequeueByTypeGood,
     DequeueMultiple}

-----------------------------------------------------------------------------
(* umqtt_instance_test.c                                                   *)

InitNullInstance == <<>>
InitMallocFail == <<New>>
InitNominal == <<Stage(<<"instBuf">>), New>>

InstanceTests == {InitNullInstance, InitMallocFail, InitNominal}

-----------------------------------------------------------------------------
(* umqtt_connect_test.c                                                    *)

ConnectAllocFail == <<Connect>>
ConnectCalcLength ==
    LET again == <<Reset({"malloc"}), Connect>>
    IN  <<Connect>> \o again \o again \o again \o again
ConnectEncoded == <<Stage(<<b1, b2>>), Connect>>
ConnectBasic == <<Returns, Stage(<<b1, b2>>), Connect>>
ConnectPending == ConnectBasic \o ConnectBasic
ConnectConnected == <<SetConnected>> \o ConnectBasic
DisconnectBadNet == <<Disconnect>>
DisconnectGood == <<SetConnected, Returns, Disconnect>>

ConnectTests ==
    {ConnectAllocFail, ConnectCalcLength, ConnectEncoded, ConnectBasic, ConnectPending,
     ConnectConnected, DisconnectBadNet, DisconnectGood}

-----------------------------------------------------------------------------
(* umqtt_publish_test.c, umqtt_subscribe_test.c, umqtt_unsubscribe_test.c; *)
(* their set-up ends with wrap_setConnected.                               *)

PublishCalcLength ==
    <<SetConnected, Publish(0), Reset({"malloc"}), Publish(0), Reset({"malloc"}), Publish(11)>>
PublishEncoded == <<SetConnected, Stage(<<b1>>), Publish(0)>>
PublishBasic == <<SetConnected, Returns, Stage(<<b1>>), Publish(0)>>
PublishFeatures == <<SetConnected, Returns, Stage(<<b1>>), Publish(11)>>

\* CalcLength, EncodedLength, SingleTopic and MultiTopic, for either kind of request.
RequestTests(request) ==
    {<<SetConnected, request, Reset({"malloc"}), request>>,
     <<SetConnected, Stage(<<b1>>), request, Reset({"malloc", "write"}), Stage(<<b1>>), request>>,
     <<SetConnected, Returns, Stage(<<b1>>), request>>}

PublishTests == {PublishCalcLength, PublishEncoded, PublishBasic, PublishFeatures}
SubscribeTests == RequestTests(Subscribe(11))
UnsubscribeTests == RequestTests(Unsubscribe(11))

-----------------------------------------------------------------------------
(* umqtt_decode_test.c                                                     *)

DecodeUnasked == {<<Connack(FALSE)>>, <<Connack(TRUE)>>, <<Ack(22)>>}
ConnackWithDequeue == <<Stage(<<b2>>), NewPacket, Enqueue(11, CONNECT), Connack(FALSE)>>
PublishQos1 == <<Returns, CopyTo(b1), PublishQos1Received>>
PubackWithDequeue == <<Stage(<<b2>>), NewPacket, Enqueue(11, 3), Ack(11)>>
SubackWithDequeue == <<Stage(<<b2>>), NewPacket, Enqueue(11, 8), Ack(11)>>
UnsubackWithDequeue == <<Stage(<<b2>>), NewPacket, Enqueue(11, 10), Ack(11)>>

DecodeTests ==
    DecodeUnasked \cup {ConnackWithDequeue, PublishQos1, PubackWithDequeue,
                        SubackWithDequeue, UnsubackWithDequeue}

-----------------------------------------------------------------------------
(* umqtt_run_test.c                                                        *)

CleanUp == Reset({"malloc", "free", "write"})

\* "lazy way to get required packet length": a call that fails comes first.
Lazy(bufs, call) ==
    <<Stage(bufs), call, Reset({"malloc"}), Returns, Stage(bufs), call, CleanUp>>
initiateConnect == Lazy(<<b1, b2>>, Connect)
completeConnect == <<Connack(TRUE), CleanUp>>
connected == initiateConnect \o completeConnect

NothingHappens == connected \o <<Run("nothing"), Run("nothing")>>
BasicRx == connected \o <<Receive(b1, PktLen), Run("nothing")>>
RxNetError == connected \o <<Receive(NULL, -1), Run("nothing")>>

PingOnce == <<CopyTo(b1), Returns, Run("ping")>>
Ping == connected \o <<Run("nothing")>> \o PingOnce
PingExclusive ==
    connected \o PingOnce \o <<Reset({"write"}), CopyTo(b1), Returns, Run("nothing")>>
PingInclusive == connected \o PingOnce \o <<Reset({"write"})>> \o PingOnce
PingNetError ==
    connected \o PingOnce \o <<Reset({"write"}), Run("ping"), Reset({"write"})>> \o PingOnce

ThreeRuns == <<Run("nothing"), Run("nothing"), Run("nothing")>>
ConnectTimeout == initiateConnect \o ThreeRuns \o <<Run("expire")>>
ConnectRun == initiateConnect \o ThreeRuns \o completeConnect \o <<Run("nothing")>>

Pending(request) == connected \o <<SetKeepAlive>> \o Lazy(<<b1>>, request)
Resent == <<Run("nothing"), CopyTo("clientBuf"), Returns, Run("resend")>>
Timeout(request) == Pending(request) \o Resent
Answered(request) ==
    Pending(request)
      \o <<Run("nothing"), Receive(b2, PktLen), RunAcks(11),
           Reset({"malloc", "free", "read", "write"}), Run("nothing")>>

PublishTimeout == Timeout(Publish(11))
PublishRun == Answered(Publish(11))
SubscribeTimeout == Timeout(Subscribe(11))
SubscribeRun == Answered(Subscribe(11))
UnsubscribeTimeout == Timeout(Unsubscribe(11))
UnsubscribeRun == Answered(Unsubscribe(11))

\* Ten rounds of the loop.
PublishExpire ==
    Pending(Publish(11))
      \o FlattenSeq([i \in 1..10 |-> Resent \o <<Reset({"write"})>>])
      \o <<Run("expire")>>

RunTests ==
    {NothingHappens, BasicRx, RxNetError, Ping, PingExclusive, PingInclusive, PingNetError,
     ConnectTimeout, ConnectRun, PublishTimeout, PublishRun, SubscribeTimeout, SubscribeRun,
     UnsubscribeTimeout, UnsubscribeRun, PublishExpire}

-----------------------------------------------------------------------------
\* The tests of all groups but Instance, in any order.
TestBodies ==
    PacketHandlingTests \cup ConnectTests \cup PublishTests \cup SubscribeTests
      \cup UnsubscribeTests \cup DecodeTests \cup RunTests
=============================================================================
