----------------------------- MODULE NetClient -----------------------------
(***************************************************************************)
(* mcu_test/net_client.c over lwIP, with the two transport callbacks       *)
(* (netReadPacket, netWritePacket) and the event callback of mcu_test.c    *)
(* through which the program uses it.                                      *)
(*                                                                         *)
(* Two contexts run.  lwIP calls the net_...Cb functions from the ethernet *)
(* or SysTick interrupt; each callback is one atomic step.  The application*)
(* runs below them and can be interrupted between any two statements:      *)
(* `call' says where it stands inside a call, and every lwIP function it   *)
(* calls reads this->hNet afresh.  lwIP itself is external: its control    *)
(* blocks are numbered 1, 2, ... in the order net_Connect allocates them,  *)
(* and NoPcb is the null handle.                                           *)
(***************************************************************************)
EXTENDS PbufQueue, FiniteSets

CONSTANTS
    MaxConn,    \* bound on the connections attempted
    MaxPkt,     \* bound on the pbufs lwIP delivers
    Kind        \* kinds of packets, told apart by what umqtt does with them

Conn == 1..MaxConn
NoPcb == 0

ASSUME BoundAssumption == MaxConn \in Nat /\ MaxPkt \in Nat
\* A pbuf remembers the order of delivery, its connection and its content.
ASSUME PbufAssumption == Pbuf = [id : 1..MaxPkt, conn : Conn, kind : Kind]

Callback == {"err", "poll", "recv", "sent"}

\* Where the application stands inside a call: the next thing it will do.
ReadStage == {"read_malloc", "read_dequeue", "read_recved", "read_free"}
DetachStage == {"disc_sent", "disc_recv", "disc_err", "disc_poll"}
DisconnectStage ==
    DetachStage \cup {"disc_close", "disc_hNet", "disc_isConnected", "disc_event"}
Stage == {"idle", "write_output"} \cup ReadStage \cup DisconnectStage

VARIABLES
    hNet, isConnected,      \* NetClient_Instance_t
    netWasDisconnected,     \* mcu_test.c, set by net_EventCb
    call,                   \* the stage of the call in progress
    len,                    \* netReadPacket: what net_GetReadLen returned, 0
                            \* once it is out of use
    pb,                     \* net_ReadPacket: the pbuf taken from the queue
    ret, buf,               \* what the last netReadPacket returned and stored
    written,                \* whether the last netWritePacket returned len
    pcb,                    \* external: lwIP's control blocks
    refused,                \* external: the pbuf lwIP keeps to redeliver
    delivered,              \* external: how many pbufs lwIP has delivered
    fault,                  \* what the processor is stuck on, if anything
    accepted, consumed, leaked  \* history of the pbufs

instVars == <<hNet, isConnected, netWasDisconnected>>
callVars == <<len, pb, ret, buf, written>>
lwipVars == <<pcb, refused, delivered>>
histVars == <<accepted, consumed, leaked>>
netVars == <<queueVars, instVars, call, callVars, lwipVars, fault, histVars>>

UnusedPcb == [st |-> "unused", arg |-> FALSE, cb |-> {}]
ClosedPcb == [st |-> "closed", arg |-> FALSE, cb |-> {}]
Live(c) == pcb[c].st \in {"connecting", "established", "closewait"}

\* net_Init, and lwIP before the first tcp_new.
NetInit ==
    /\ QueueInit
    /\ hNet = NoPcb /\ isConnected = FALSE /\ netWasDisconnected = FALSE
    /\ call = "idle" /\ len = 0 /\ pb = NULL /\ ret = 0 /\ buf = NULL
    /\ written = FALSE
    /\ pcb = [c \in Conn |-> UnusedPcb]
    /\ refused = [c \in Conn |-> NULL]
    /\ delivered = 0
    /\ fault = "none"
    /\ accepted = <<>> /\ consumed = <<>> /\ leaked = {}

-----------------------------------------------------------------------------
\* (Bug: a loss is reported only of an established connection.)
net_EventCbWhenConnected(event) ==
    netWasDisconnected' = (netWasDisconnected \/
                             (event = "NET_EVENT_DISCONNECTED" /\ isConnected))

\* net_EventCb of mcu_test.c, the pfnCb of the instance.
net_EventCb(event) ==
    netWasDisconnected' = (netWasDisconnected \/ event = "NET_EVENT_DISCONNECTED")

\* A callback with a null instance calls this->pfnCb through the vector table
\* at address 0, whose entry there is IntDefaultHandler: an infinite loop.
NullInstance == fault' = "null_instance" /\ UNCHANGED instVars

\* What may become of the processor when an lwIP function is given hNet.  A
\* null pcb makes it write to or read from address 0 and up: a bus fault ends
\* in FaultISR's infinite loop, or the access has no effect.  So may the use
\* of a block that lwIP has freed.
PcbFault ==
    IF hNet = NoPcb THEN {"none", "null_pcb"}
    ELSE IF Live(hNet) THEN {"none"} ELSE {"none", "freed_pcb"}

\* A table indexed by control block with the entry of hNet, if any, replaced.
WithPcb(table, new) == IF hNet = NoPcb THEN table ELSE [table EXCEPT ![hNet] = new]

\* The instance forgets its connection.  (Bug: and goes on as connected.)
ForgetHandleOnly == hNet' = NoPcb /\ isConnected' = isConnected
Forget == hNet' = NoPcb /\ isConnected' = FALSE

\* net_ErrorCb(arg, err), p being the control blocks it finds: detach and
\* abort the connection, forget it, tell the application.
net_ErrorCb(arg, p) ==
    IF arg
    THEN /\ fault' \in PcbFault
         /\ pcb' = WithPcb(p, ClosedPcb)
         /\ IF fault' = "none"
            THEN Forget /\ net_EventCb("NET_EVENT_DISCONNECTED")
            ELSE UNCHANGED instVars
    ELSE pcb' = p /\ NullInstance

\* What lwIP keeps to offer again: the pbuf for which net_ReceiveCb returned
\* ERR_MEM.  (Bug: ERR_MEM is returned for every pbuf.)
KeptAlways(p) == p
Kept(p) == IF HasRoom THEN NULL ELSE p

\* net_ReceiveCb(arg, pcb, pb) with a pbuf of connection c.  Without an
\* instance it reports success and the pbuf belongs to nobody.
net_ReceiveCb(c, p) ==
    /\ IF pcb[c].arg
       THEN /\ net_EnqueuePbuf(p)
            /\ accepted' = IF HasRoom THEN Append(accepted, p) ELSE accepted
            /\ refused' = [refused EXCEPT ![c] = Kept(p)]
            /\ leaked' = leaked
       ELSE /\ leaked' = leaked \cup {p}
            /\ refused' = [refused EXCEPT ![c] = NULL]
            /\ UNCHANGED <<queueVars, accepted>>
    /\ UNCHANGED <<instVars, call, callVars, pcb, fault, consumed>>

\* net_ConnectedCb(arg, pcb, ERR_OK) for connection c.
net_ConnectedCb(c) ==
    LET up == [pcb EXCEPT ![c].st = "established"]
    IN  IF pcb[c].arg
        THEN /\ fault' \in PcbFault
             /\ pcb' = IF hNet = NoPcb THEN up ELSE [up EXCEPT ![hNet].cb = Callback]
             /\ isConnected' = TRUE
             /\ net_EventCb("NET_EVENT_CONNECTED")
             /\ hNet' = hNet
        ELSE pcb' = up /\ NullInstance

-----------------------------------------------------------------------------
(* What lwIP does on its own, in interrupt context.                        *)

\* The SYN is acknowledged.
LwipConnected(c) ==
    /\ pcb[c].st = "connecting"
    /\ net_ConnectedCb(c)
    /\ UNCHANGED <<queueVars, call, callVars, refused, delivered, histVars>>

\* Reset, refusal or timeout: lwIP drops the connection and what it kept for
\* it, and reports to the error callback.
LwipError(c) ==
    /\ Live(c)
    /\ LET dropped == [pcb EXCEPT ![c].st = "closed"]
       IN  IF "err" \in pcb[c].cb
           THEN net_ErrorCb(pcb[c].arg, dropped)
           ELSE pcb' = dropped /\ UNCHANGED <<instVars, fault>>
    /\ refused' = [refused EXCEPT ![c] = NULL]
    /\ UNCHANGED <<queueVars, call, callVars, delivered, histVars>>

\* Data arrives.  Without a receive callback lwIP frees it itself.
LwipReceive(c) ==
    /\ pcb[c].st = "established" /\ refused[c] = NULL
    /\ delivered < MaxPkt
    /\ delivered' = delivered + 1
    /\ \E k \in Kind :
         IF "recv" \in pcb[c].cb
         THEN net_ReceiveCb(c, [id |-> delivered + 1, conn |-> c, kind |-> k])
         ELSE UNCHANGED <<queueVars, instVars, call, callVars, pcb, refused,
                          fault, histVars>>

\* lwIP offers a refused pbuf again; it takes no new data before that.
LwipRedeliver(c) ==
    /\ pcb[c].st = "established" /\ refused[c] # NULL /\ "recv" \in pcb[c].cb
    /\ delivered' = delivered
    /\ net_ReceiveCb(c, refused[c])

\* It frees the pbuf instead: it gives up, which net_ReceiveCb expects of it after
\* some attempts, or there is no callback to offer the pbuf to.
LwipGivesUp(c) ==
    /\ pcb[c].st = "established" /\ refused[c] # NULL
    /\ refused' = [refused EXCEPT ![c] = NULL]
    /\ UNCHANGED <<queueVars, instVars, call, callVars, pcb, delivered, fault, histVars>>

\* The peer closes: net_ReceiveCb gets a null pbuf and hands it to net_ErrorCb.
\* Without a receive callback lwIP closes the connection itself.
LwipFin(c) ==
    /\ pcb[c].st = "established" /\ refused[c] = NULL
    /\ IF "recv" \in pcb[c].cb
       THEN IF pcb[c].arg
            THEN net_ErrorCb(TRUE, [pcb EXCEPT ![c].st = "closewait"])
            ELSE /\ pcb' = [pcb EXCEPT ![c].st = "closewait"]
                 /\ UNCHANGED <<instVars, fault>>
       ELSE /\ pcb' = [pcb EXCEPT ![c].st = "closed"]
            /\ UNCHANGED <<instVars, fault>>
    /\ UNCHANGED <<queueVars, call, callVars, refused, delivered, histVars>>

\* The periodic poll: net_PollCb only calls pfnCb, which ignores the event.
LwipPoll(c) ==
    /\ Live(c) /\ "poll" \in pcb[c].cb
    /\ IF pcb[c].arg
       THEN net_EventCb("NET_EVENT_POLL") /\ UNCHANGED <<hNet, isConnected, fault>>
       ELSE NullInstance
    /\ UNCHANGED <<queueVars, call, callVars, lwipVars, histVars>>

\* Sent data is acknowledged: net_SentCb does nothing.
LwipSent(c) ==
    /\ Live(c) /\ "sent" \in pcb[c].cb
    /\ UNCHANGED netVars

Interrupt ==
    \E c \in Conn :
        \/ LwipConnected(c) \/ LwipError(c) \/ LwipReceive(c) \/ LwipRedeliver(c)
        \/ LwipGivesUp(c) \/ LwipFin(c) \/ LwipPoll(c) \/ LwipSent(c)

-----------------------------------------------------------------------------
(* What the application calls.  Each definition is what runs up to the next *)
(* point at which an interrupt makes a difference.                          *)

\* (Bug: the error callback is not registered before the connect.)
net_ConnectOkNoErr(c) ==
    /\ call = "idle"
    /\ pcb[c].st = "unused" /\ \A d \in Conn : d < c => pcb[d].st # "unused"
    /\ pcb' = [pcb EXCEPT ![c] = [st |-> "connecting", arg |-> TRUE, cb |-> {}]]
    /\ hNet' = c
    /\ UNCHANGED <<queueVars, isConnected, netWasDisconnected, call, callVars,
                   refused, delivered, fault, histVars>>

\* net_Connect with its three results; c is the block tcp_new finds.  No
\* callback can concern the new block before tcp_connect has succeeded, which
\* is the last thing the function does.
net_ConnectOk(c) ==
    /\ call = "idle"
    /\ pcb[c].st = "unused" /\ \A d \in Conn : d < c => pcb[d].st # "unused"
    /\ pcb' = [pcb EXCEPT ![c] = [st |-> "connecting", arg |-> TRUE, cb |-> {"err"}]]
    /\ hNet' = c
    /\ UNCHANGED <<queueVars, isConnected, netWasDisconnected, call, callVars,
                   refused, delivered, fault, histVars>>

\* tcp_new fails (-2) and nothing has changed, or tcp_connect fails (-4) and
\* the block is closed again.
net_ConnectFails ==
    /\ call = "idle"
    /\ \/ UNCHANGED <<hNet, isConnected>>
       \/ hNet' = NoPcb /\ isConnected' = FALSE
    /\ UNCHANGED <<queueVars, netWasDisconnected, call, callVars, lwipVars, fault,
                   histVars>>

net_IsConnected == isConnected

\* Go on to stage s after an lwIP function was given hNet.
Then(s) == fault' \in PcbFault /\ call' = s

\* net_Disconnect, first statement: tcp_arg(hNet, NULL).
net_Disconnect ==
    /\ call = "idle"
    /\ Then("disc_sent")
    /\ pcb' = IF hNet = NoPcb THEN pcb ELSE [pcb EXCEPT ![hNet].arg = FALSE]
    /\ UNCHANGED <<queueVars, instVars, callVars, refused, delivered, histVars>>

\* The order of the statements of net_Disconnect.  (Bugs: tcp_poll or tcp_recv is
\* left out; the application is told before the instance has forgotten the
\* connection.)
NextStageNoPoll ==
    [disc_sent |-> "disc_recv", disc_recv |-> "disc_err", disc_err |-> "disc_close",
     disc_poll |-> "disc_close", disc_close |-> "disc_hNet",
     disc_hNet |-> "disc_isConnected", disc_isConnected |-> "disc_event",
     disc_event |-> "idle"]
NextStageNoRecv ==
    [disc_sent |-> "disc_err", disc_recv |-> "disc_err", disc_err |-> "disc_poll",
     disc_poll |-> "disc_close", disc_close |-> "disc_hNet",
     disc_hNet |-> "disc_isConnected", disc_isConnected |-> "disc_event",
     disc_event |-> "idle"]
NextStageNotifyFirst ==
    [disc_sent |-> "disc_recv", disc_recv |-> "disc_err", disc_err |-> "disc_poll",
     disc_poll |-> "disc_close", disc_close |-> "disc_event",
     disc_event |-> "disc_hNet", disc_hNet |-> "disc_isConnected",
     disc_isConnected |-> "idle"]
NextStage ==
    [disc_sent |-> "disc_recv", disc_recv |-> "disc_err", disc_err |-> "disc_poll",
     disc_poll |-> "disc_close", disc_close |-> "disc_hNet",
     disc_hNet |-> "disc_isConnected", disc_isConnected |-> "disc_event",
     disc_event |-> "idle"]

\* The callback each detaching stage clears.  (Bug: two of them exchanged.)
ClearedErrFirst == [disc_sent |-> "sent", disc_recv |-> "err",
                    disc_err |-> "recv", disc_poll |-> "poll"]
Cleared == [disc_sent |-> "sent", disc_recv |-> "recv",
            disc_err |-> "err", disc_poll |-> "poll"]

\* tcp_sent, tcp_recv, tcp_err, tcp_poll, one after the other.
DisconnectDetach ==
    /\ call \in DetachStage
    /\ Then(NextStage[call])
    /\ pcb' = IF hNet = NoPcb THEN pcb
              ELSE [pcb EXCEPT ![hNet].cb = @ \ {Cleared[call]}]
    /\ UNCHANGED <<queueVars, instVars, callVars, refused, delivered, histVars>>

\* tcp_close(hNet); its result is ignored.  When it finds no memory for the
\* FIN of an established connection, that stays up without callbacks.
DisconnectClose ==
    /\ call = "disc_close"
    /\ Then(NextStage[call])
    /\ \/ /\ pcb' = WithPcb(pcb, ClosedPcb)
          /\ refused' = WithPcb(refused, NULL)
       \/ /\ hNet # NoPcb /\ pcb[hNet].st \in {"established", "closewait"}
          /\ UNCHANGED <<pcb, refused>>
    /\ UNCHANGED <<queueVars, instVars, callVars, delivered, histVars>>

\* The instance forgets the connection and the application is told.
DisconnectForget ==
    /\ call \in {"disc_hNet", "disc_isConnected", "disc_event"}
    /\ call' = NextStage[call]
    /\ \/ /\ call = "disc_hNet"
          /\ hNet' = NoPcb
          /\ UNCHANGED <<isConnected, netWasDisconnected>>
       \/ /\ call = "disc_isConnected"
          /\ isConnected' = FALSE
          /\ UNCHANGED <<hNet, netWasDisconnected>>
       \/ /\ call = "disc_event"
          /\ net_EventCb("NET_EVENT_DISCONNECTED")
          /\ UNCHANGED <<hNet, isConnected>>
    /\ UNCHANGED <<queueVars, callVars, lwipVars, fault, histVars>>

-----------------------------------------------------------------------------
\* netReadPacket: ask for the length of the next packet.
netReadPacket ==
    /\ call = "idle"
    /\ len' = net_GetReadLen
    /\ ret' = 0 /\ buf' = NULL
    /\ call' = IF len' > 0 THEN "read_malloc" ELSE "idle"
    /\ UNCHANGED <<queueVars, instVars, pb, written, lwipVars, fault, histVars>>

\* app_malloc(len), which may fail; then the length is returned all the same.
ReadMalloc ==
    /\ call = "read_malloc"
    /\ \/ call' = "read_dequeue" /\ UNCHANGED <<ret, len>>
       \/ call' = "idle" /\ ret' = len /\ len' = 0
    /\ UNCHANGED <<queueVars, instVars, pb, buf, written, lwipVars, fault, histVars>>

\* net_ReadPacket: take a pbuf and copy what fits.  (The queue cannot have
\* become empty since net_GetReadLen; the null result is kept all the same.)
ReadDequeue ==
    /\ call = "read_dequeue"
    /\ net_DequeuePbuf
    /\ pb' = NextPbuf
    /\ buf' = pb'
    /\ ret' = IF pb' = NULL THEN 0
              ELSE IF PbufLen[pb'] > len THEN len ELSE PbufLen[pb']
    /\ call' = IF pb' = NULL THEN "idle" ELSE "read_recved"
    /\ len' = 0
    /\ UNCHANGED <<instVars, written, lwipVars, fault, histVars>>

\* tcp_recved(hNet, pktlen) opens the receive window.
ReadRecved ==
    /\ call = "read_recved"
    /\ Then("read_free")
    /\ UNCHANGED <<queueVars, instVars, callVars, lwipVars, histVars>>

\* pbuf_free(pb), and netReadPacket returns.
ReadFree ==
    /\ call = "read_free"
    /\ call' = "idle"
    /\ pb' = NULL
    /\ consumed' = Append(consumed, pb)
    /\ UNCHANGED <<queueVars, instVars, len, ret, buf, written, lwipVars, fault,
                   accepted, leaked>>

\* netWritePacket: tcp_write, which may fail; with a null pcb that does not
\* fault either result is possible.
netWritePacket ==
    /\ call = "idle"
    /\ fault' \in PcbFault
    /\ \/ written' = FALSE /\ call' = "idle"
       \/ written' = TRUE /\ call' \in {"idle", "write_output"}
    /\ UNCHANGED <<queueVars, instVars, len, pb, ret, buf, lwipVars, histVars>>

\* Unless isMore: tcp_output(hNet), result ignored.
WriteOutput ==
    /\ call = "write_output"
    /\ Then("idle")
    /\ UNCHANGED <<queueVars, instVars, callVars, lwipVars, histVars>>

\* The application goes on with the call it is in.
CallStep ==
    \/ DisconnectDetach \/ DisconnectClose \/ DisconnectForget
    \/ ReadMalloc \/ ReadDequeue \/ ReadRecved \/ ReadFree
    \/ WriteOutput

\* FaultISR and IntDefaultHandler loop for ever.
Halted == fault # "none" /\ UNCHANGED netVars

-----------------------------------------------------------------------------
(* net_client.c under any application that opens a connection only when it  *)
(* has none.  Between calls the application may clear its event flag and    *)
(* give back the buffer of the last packet.                                 *)
ClearNotice ==
    /\ call = "idle"
    /\ netWasDisconnected' = FALSE
    /\ UNCHANGED <<queueVars, hNet, isConnected, call, callVars, lwipVars, fault,
                   histVars>>

FreeBuffer ==
    /\ call = "idle"
    /\ ret' = 0 /\ buf' = NULL
    /\ UNCHANGED <<queueVars, instVars, call, len, pb, written, lwipVars, fault,
                   histVars>>

ClientStep ==
    \/ hNet = NoPcb /\ \E c \in Conn : net_ConnectOk(c)
    \/ hNet = NoPcb /\ net_ConnectFails
    \/ net_Disconnect \/ netReadPacket \/ netWritePacket
    \/ ClearNotice \/ FreeBuffer

NetNext ==
    \/ fault = "none" /\ Interrupt
    \/ fault = "none" /\ ClientStep
    \/ fault = "none" /\ CallStep
    \/ Halted

NetSpec == NetInit /\ [][NetNext]_netVars

-----------------------------------------------------------------------------
\* The state of net_client.c, of the call in progress and of lwIP as far as
\* net_client.c sees it.
NetTypeOK ==
    /\ QueueOK
    /\ hNet \in Conn \cup {NoPcb}
    /\ isConnected \in BOOLEAN /\ netWasDisconnected \in BOOLEAN
    /\ call \in Stage
    /\ len \in 0..Uint16Max /\ ret \in 0..Uint16Max
    /\ pb \in Pbuf \cup {NULL} /\ buf \in Pbuf \cup {NULL}
    /\ written \in BOOLEAN
    /\ pcb \in [Conn -> [st : {"unused", "connecting", "established", "closewait",
                               "closed"}, arg : BOOLEAN, cb : SUBSET Callback]]
    /\ refused \in [Conn -> Pbuf \cup {NULL}]
    /\ delivered \in 0..MaxPkt
    /\ fault \in {"none", "null_instance", "null_pcb", "freed_pcb"}
    /\ accepted \in Seq(Pbuf) /\ consumed \in Seq(Pbuf) /\ leaked \subseteq Pbuf

\* Every pbuf net_ReceiveCb accepted is, once and in the order of arrival, freed
\* after having been read, in the hands of net_ReadPacket, or in the queue:
\* none is lost, freed twice or overtaken, whatever interrupts whatever.
Held == IF pb = NULL THEN <<>> ELSE <<pb>>
AcceptedPbufsAccountedFor == accepted = consumed \o Held \o Contents

\* The application gets packets in the order in which lwIP delivered them,
\* also when some were refused for lack of room and delivered again.
PacketsInOrder ==
    /\ \A i, j \in 1..Len(accepted) : i < j => accepted[i].id < accepted[j].id
    /\ \A c \in Conn : refused[c] # NULL =>
          \A i \in 1..Len(accepted) :
              accepted[i].conn = c => accepted[i].id < refused[c].id

\* netReadPacket sizes its buffer with net_GetReadLen and then reads, with
\* interrupts enqueueing in between: the pbuf it gets is the one measured, and
\* all of its pb->len bytes are read.  (What follows it in a chain is not: see
\* PacketIsStored of RecvPath.)
PacketsAreWhole == call = "idle" /\ buf # NULL => ret = PbufLen[buf]

\* Outside net_Disconnect, hNet is a connection lwIP still has and which calls
\* back with the instance, and isConnected means that it is established with
\* all callbacks registered.
HandleIsLive ==
    call \notin DisconnectStage =>
        /\ hNet # NoPcb => Live(hNet) /\ pcb[hNet].arg
        /\ isConnected => /\ hNet # NoPcb
                          /\ pcb[hNet].st = "established"
                          /\ pcb[hNet].cb = Callback

\* A connection that is not the current one, left behind by a tcp_close that
\* failed, calls nothing back: its late events cannot touch its successor.
StrayConnectionsAreMute ==
    \A c \in Conn : Live(c) /\ c # hNet => ~pcb[c].arg /\ pcb[c].cb = {}

\* lwIP calls back without an instance only between net_Disconnect's tcp_arg and
\* the last of its calls that clear the callbacks, or before its tcp_close when
\* the connection was still being established (the connected callback is never
\* cleared); it is given a block it has freed only inside net_Disconnect.
FaultsOnlyWhileDetaching ==
    /\ fault = "null_instance" =>
          call \in DetachStage \/ (call = "disc_close" /\ ~isConnected)
    /\ fault = "freed_pcb" => call \in DisconnectStage

\* A pbuf is forgotten, neither queued nor refused nor freed, only between
\* net_Disconnect's tcp_arg and its tcp_recv.
PbufsLeakOnlyWhileDetaching ==
    [][leaked' # leaked => call \in {"disc_sent", "disc_recv"}]_netVars
=============================================================================
