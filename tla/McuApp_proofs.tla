--------------------------- MODULE McuApp_proofs ---------------------------
(***************************************************************************)
(* The first part is about net_client.c under every application that opens *)
(* a connection only when it has none, for every number of connections and *)
(* pbufs and every size of the receive queue.                              *)
(*                                                                         *)
(* The second part is about main() of mcu_test.c over net_client.c, for    *)
(* every length of its delays too; the application it makes of net_client  *)
(* is one of those of the first part.                                      *)
(***************************************************************************)
EXTENDS McuApp, PbufQueue_proofs

-----------------------------------------------------------------------------
(* Part one: net_client.                                                   *)

\* The callbacks of the connection that net_Disconnect has yet to clear.
StillSet ==
    [disc_sent |-> Callback, disc_recv |-> {"recv", "err", "poll"},
     disc_err |-> {"err", "poll"}, disc_poll |-> {"poll"},
     disc_close |-> {}, disc_hNet |-> {}, disc_isConnected |-> {}, disc_event |-> {}]

\* Only the connection of the instance has the instance as callback argument,
\* is being established, or has callbacks.
OthersAreMute ==
    \A c \in Conn : c # hNet =>
        /\ ~pcb[c].arg
        /\ pcb[c].st # "connecting"
        /\ Live(c) => pcb[c].cb = {}

\* Outside net_Disconnect the instance and lwIP agree on the connection.
ConnectionIsWhole ==
    call \notin DisconnectStage =>
        /\ hNet = NoPcb => ~isConnected
        /\ hNet # NoPcb =>
              /\ pcb[hNet].arg
              /\ \/ pcb[hNet].st = "connecting" /\ pcb[hNet].cb = {"err"} /\ ~isConnected
                 \/ pcb[hNet].st = "established" /\ pcb[hNet].cb = Callback /\ isConnected

\* Inside it the argument is gone and the callbacks go one by one; the connected
\* callback, which is never cleared, needs a connection not yet up.
ConnectionIsDetached ==
    call \in DisconnectStage =>
        /\ hNet # NoPcb =>
              /\ ~pcb[hNet].arg
              /\ Live(hNet) => pcb[hNet].cb \subseteq StillSet[call]
              /\ pcb[hNet].st = "connecting" => /\ ~isConnected
                                                /\ call \in DetachStage \cup {"disc_close"}
        /\ call \in {"disc_isConnected", "disc_event"} => hNet = NoPcb
        /\ call = "disc_event" => ~isConnected

\* The connection and its callbacks, at every point of every call.
ConnInv ==
    /\ OthersAreMute
    /\ ConnectionIsWhole
    /\ ConnectionIsDetached
    /\ FaultsOnlyWhileDetaching

\* net_ReadPacket has a pbuf in its hands from the dequeue to pbuf_free.
HoldsPbuf == pb # NULL <=> call \in {"read_recved", "read_free"}

\* What netReadPacket knows at each of its stages: the packet it measured is
\* still the next one, and the buffer it has filled holds that packet.
ReadInv ==
    /\ HoldsPbuf
    /\ call \in {"read_malloc", "read_dequeue"} =>
          /\ Contents # <<>>
          /\ len = PbufLen[Head(Contents)]
          /\ buf = NULL
    /\ buf # NULL => ret = PbufLen[buf]

\* The order of delivery: what lwIP keeps of the instance's own connection is
\* younger than everything accepted.
OrderInv ==
    /\ PacketsInOrder
    /\ \A i \in 1..Len(accepted) : accepted[i].id <= delivered
    /\ \A c \in Conn : refused[c] # NULL =>
          /\ refused[c].conn = c
          /\ refused[c].id <= delivered
          /\ pcb[c].st # "unused"
          /\ pcb[c].arg => \A i \in 1..Len(accepted) : accepted[i].id < refused[c].id

-----------------------------------------------------------------------------
(* Types.                                                                   *)

\* The fields of lwIP's control block.
PcbRecord == [st : {"unused", "connecting", "established", "closewait", "closed"},
              arg : BOOLEAN, cb : SUBSET Callback]

\* Replacing one field of one control block, or the block of the instance.
LEMMA PcbUpdates ==
    ASSUME NEW p \in [Conn -> PcbRecord], NEW c \in Conn
    PROVE  /\ \A s \in {"established", "closewait", "closed"} :
                 [p EXCEPT ![c].st = s] \in [Conn -> PcbRecord]
           /\ [p EXCEPT ![c].arg = FALSE] \in [Conn -> PcbRecord]
           /\ \A s \in SUBSET Callback :
                 [p EXCEPT ![c].cb = s] \in [Conn -> PcbRecord]
           /\ [p EXCEPT ![c] = ClosedPcb] \in [Conn -> PcbRecord]
  BY DEF PcbRecord, ClosedPcb

\* The calls of net_client.c and its callbacks read and write the queue through
\* its operations only.
LEMMA QueueUnchanged ==
    ASSUME UNCHANGED queueVars
    PROVE  QueueOK' = QueueOK /\ Contents' = Contents
  BY DEF queueVars, QueueOK, Contents, Size

\* A connection is a number, never the null handle.
LEMMA ConnIsNat == Conn \subseteq Nat \ {NoPcb}
  BY BoundAssumption DEF Conn, NoPcb

\* net_ErrorCb, whatever it finds.
LEMMA ErrorCbType ==
    ASSUME NetTypeOK, NEW arg \in BOOLEAN, NEW p \in [Conn -> PcbRecord],
           net_ErrorCb(arg, p)
    PROVE  /\ hNet' \in Conn \cup {NoPcb}
           /\ isConnected' \in BOOLEAN /\ netWasDisconnected' \in BOOLEAN
           /\ pcb' \in [Conn -> PcbRecord]
           /\ fault' \in {"none", "null_instance", "null_pcb", "freed_pcb"}
<1>1. hNet # NoPcb => [p EXCEPT ![hNet] = ClosedPcb] \in [Conn -> PcbRecord]
  BY PcbUpdates DEF NetTypeOK
<1> QED
  BY <1>1 DEF net_ErrorCb, NetTypeOK, PcbFault, WithPcb, Forget, net_EventCb,
              NullInstance, instVars

\* net_ReceiveCb with a pbuf of connection c.
LEMMA ReceiveCbType ==
    ASSUME NetTypeOK, NEW c \in Conn, NEW p \in Pbuf, net_ReceiveCb(c, p)
    PROVE  /\ QueueOK'
           /\ accepted' \in Seq(Pbuf) /\ leaked' \subseteq Pbuf
           /\ refused' \in [Conn -> Pbuf \cup {NULL}]
<1>1. CASE pcb[c].arg
  <2>1. QueueOK'
    BY <1>1, EnqueueAppends DEF net_ReceiveCb, NetTypeOK
  <2>2. accepted' \in Seq(Pbuf)
    <3>1. accepted \in Seq(Pbuf)
      BY DEF NetTypeOK
    <3>2. accepted' = Append(accepted, p) \/ accepted' = accepted
      BY <1>1 DEF net_ReceiveCb
    <3> QED BY <3>1, <3>2
  <2>3. Kept(p) \in Pbuf \cup {NULL}
    BY DEF Kept
  <2>4. refused' \in [Conn -> Pbuf \cup {NULL}]
    BY <1>1, <2>3 DEF net_ReceiveCb, NetTypeOK
  <2> QED
    BY <1>1, <2>1, <2>2, <2>4 DEF net_ReceiveCb, NetTypeOK
<1>2. CASE ~pcb[c].arg
  <2>1. QueueOK'
    BY <1>2, QueueUnchanged DEF net_ReceiveCb, NetTypeOK
  <2> QED
    BY <1>2, <2>1 DEF net_ReceiveCb, NetTypeOK
<1> QED BY <1>1, <1>2

\* What lwIP does on its own keeps the types.
LEMMA InterruptType ==
    ASSUME NetTypeOK, Interrupt
    PROVE  NetTypeOK'
<1>0. pcb \in [Conn -> PcbRecord] /\ hNet \in Conn \cup {NoPcb}
  BY DEF NetTypeOK, PcbRecord
<1> PICK c \in Conn :
        \/ LwipConnected(c) \/ LwipError(c) \/ LwipReceive(c) \/ LwipRedeliver(c)
        \/ LwipGivesUp(c) \/ LwipFin(c) \/ LwipPoll(c) \/ LwipSent(c)
  BY DEF Interrupt
<1>1. CASE LwipConnected(c)
  <2>1. QueueOK'
    BY <1>1, QueueUnchanged DEF LwipConnected, NetTypeOK
  <2> DEFINE up == [pcb EXCEPT ![c].st = "established"]
  <2>2. up \in [Conn -> PcbRecord]
    BY <1>0, PcbUpdates
  <2>3. hNet # NoPcb => [up EXCEPT ![hNet].cb = Callback] \in [Conn -> PcbRecord]
    BY <1>0, <2>2, PcbUpdates
  <2>4. pcb' \in [Conn -> PcbRecord]
    BY <1>1, <2>2, <2>3 DEF LwipConnected, net_ConnectedCb
  <2>5. pcb[c].arg \in BOOLEAN
    BY <1>0 DEF PcbRecord
  <2>6. /\ hNet' = hNet /\ isConnected' \in BOOLEAN /\ netWasDisconnected' \in BOOLEAN
        /\ fault' \in {"none", "null_instance", "null_pcb", "freed_pcb"}
    BY <1>1 DEF LwipConnected, net_ConnectedCb, NullInstance, net_EventCb, PcbFault,
                NetTypeOK, instVars
  <2> QED
    BY <1>1, <2>1, <2>4, <2>6 DEF LwipConnected, NetTypeOK, PcbRecord, callVars, histVars
<1>2. CASE LwipError(c)
  <2>1. QueueOK'
    BY <1>2, QueueUnchanged DEF LwipError, NetTypeOK
  <2> DEFINE dropped == [pcb EXCEPT ![c].st = "closed"]
  <2>2. dropped \in [Conn -> PcbRecord] /\ pcb[c].arg \in BOOLEAN
    BY <1>0, PcbUpdates DEF PcbRecord
  <2>3. /\ hNet' \in Conn \cup {NoPcb}
        /\ isConnected' \in BOOLEAN /\ netWasDisconnected' \in BOOLEAN
        /\ pcb' \in [Conn -> PcbRecord]
        /\ fault' \in {"none", "null_instance", "null_pcb", "freed_pcb"}
    <3>1. CASE "err" \in pcb[c].cb
      <4>1. net_ErrorCb(pcb[c].arg, dropped)
        BY <1>2, <3>1 DEF LwipError
      <4> HIDE DEF dropped
      <4> QED BY <2>2, <4>1, ErrorCbType
    <3>2. CASE "err" \notin pcb[c].cb
      BY <1>2, <2>2, <3>2 DEF LwipError, NetTypeOK, instVars
    <3> QED BY <3>1, <3>2
  <2>4. refused' \in [Conn -> Pbuf \cup {NULL}]
    BY <1>2 DEF LwipError, NetTypeOK
  <2> QED
    BY <1>2, <2>1, <2>3, <2>4 DEF LwipError, NetTypeOK, PcbRecord, callVars, histVars
<1>3. CASE LwipReceive(c)
  <2>1. delivered' \in 0..MaxPkt /\ delivered + 1 \in 1..MaxPkt
    BY <1>3, BoundAssumption DEF LwipReceive, NetTypeOK
  <2>2. PICK k \in Kind :
          IF "recv" \in pcb[c].cb
          THEN net_ReceiveCb(c, [id |-> delivered + 1, conn |-> c, kind |-> k])
          ELSE UNCHANGED <<queueVars, instVars, call, callVars, pcb, refused, fault,
                           histVars>>
    BY <1>3 DEF LwipReceive
  <2>3. [id |-> delivered + 1, conn |-> c, kind |-> k] \in Pbuf
    BY <2>1, PbufAssumption
  <2>4. CASE "recv" \in pcb[c].cb
    <3>1. /\ QueueOK'
          /\ accepted' \in Seq(Pbuf) /\ leaked' \subseteq Pbuf
          /\ refused' \in [Conn -> Pbuf \cup {NULL}]
      BY <2>2, <2>3, <2>4, ReceiveCbType
    <3> QED
      BY <2>1, <2>2, <2>4, <3>1 DEF net_ReceiveCb, NetTypeOK, instVars, callVars
  <2>5. CASE "recv" \notin pcb[c].cb
    <3>1. QueueOK'
      BY <2>2, <2>5, QueueUnchanged DEF NetTypeOK
    <3> QED
      BY <2>1, <2>2, <2>5, <3>1 DEF NetTypeOK, instVars, callVars, histVars
  <2> QED BY <2>4, <2>5
<1>4. CASE LwipRedeliver(c)
  <2>1. delivered' = delivered /\ refused[c] \in Pbuf /\ net_ReceiveCb(c, refused[c])
    BY <1>4 DEF LwipRedeliver, NetTypeOK
  <2>2. /\ QueueOK'
        /\ accepted' \in Seq(Pbuf) /\ leaked' \subseteq Pbuf
        /\ refused' \in [Conn -> Pbuf \cup {NULL}]
    BY <2>1, ReceiveCbType
  <2> QED
    BY <2>1, <2>2 DEF net_ReceiveCb, NetTypeOK, instVars, callVars
<1>g. CASE LwipGivesUp(c)
  <2>1. QueueOK'
    BY <1>g, QueueUnchanged DEF LwipGivesUp, NetTypeOK
  <2>2. refused' \in [Conn -> Pbuf \cup {NULL}]
    BY <1>g DEF LwipGivesUp, NetTypeOK
  <2> QED
    BY <1>g, <2>1, <2>2 DEF LwipGivesUp, NetTypeOK, instVars, callVars, histVars
<1>5. CASE LwipFin(c)
  <2>1. QueueOK'
    BY <1>5, QueueUnchanged DEF LwipFin, NetTypeOK
  <2> DEFINE p(s) == [pcb EXCEPT ![c].st = s]
  <2>2. p("closewait") \in [Conn -> PcbRecord] /\ p("closed") \in [Conn -> PcbRecord]
    BY <1>0, PcbUpdates
  <2>3. /\ hNet' \in Conn \cup {NoPcb}
        /\ isConnected' \in BOOLEAN /\ netWasDisconnected' \in BOOLEAN
        /\ pcb' \in [Conn -> PcbRecord]
        /\ fault' \in {"none", "null_instance", "null_pcb", "freed_pcb"}
    <3>1. CASE "recv" \in pcb[c].cb /\ pcb[c].arg
      <4>1. net_ErrorCb(TRUE, p("closewait"))
        BY <1>5, <3>1 DEF LwipFin
      <4> HIDE DEF p
      <4> QED BY <2>2, <4>1, ErrorCbType
    <3>2. CASE ~("recv" \in pcb[c].cb /\ pcb[c].arg)
      BY <1>5, <2>2, <3>2 DEF LwipFin, NetTypeOK, instVars
    <3> QED BY <3>1, <3>2
  <2> QED
    BY <1>5, <2>1, <2>3 DEF LwipFin, NetTypeOK, PcbRecord, callVars, histVars
<1>6. CASE LwipPoll(c)
  <2>1. QueueOK'
    BY <1>6, QueueUnchanged DEF LwipPoll, NetTypeOK
  <2> QED
    BY <1>6, <2>1 DEF LwipPoll, net_EventCb, NullInstance, NetTypeOK, instVars,
                      callVars, lwipVars, histVars
<1>7. CASE LwipSent(c)
  <2>1. QueueOK'
    BY <1>7, QueueUnchanged DEF LwipSent, NetTypeOK, netVars
  <2> QED
    BY <1>7, <2>1 DEF LwipSent, NetTypeOK, netVars, instVars, callVars, lwipVars, histVars
<1> QED
  BY <1>1, <1>2, <1>3, <1>4, <1>g, <1>5, <1>6, <1>7

\* The application's calls, and the stages they go through, keep the types.
LEMMA ClientStepType ==
    ASSUME NetTypeOK, ClientStep
    PROVE  NetTypeOK'
<1>0. pcb \in [Conn -> PcbRecord] /\ hNet \in Conn \cup {NoPcb}
  BY DEF NetTypeOK, PcbRecord
<1>u. Uint16Max \in Nat
  BY DEF Uint16Max
<1>1. ASSUME NEW c \in Conn, net_ConnectOk(c) PROVE NetTypeOK'
  <2>1. QueueOK'
    BY <1>1, QueueUnchanged DEF net_ConnectOk, NetTypeOK
  <2>2. pcb' \in [Conn -> PcbRecord]
    BY <1>0, <1>1 DEF net_ConnectOk, PcbRecord, Callback
  <2> QED
    BY <1>1, <2>1, <2>2 DEF net_ConnectOk, NetTypeOK, PcbRecord, callVars, histVars
<1>2. CASE net_ConnectFails
  <2>1. QueueOK'
    BY <1>2, QueueUnchanged DEF net_ConnectFails, NetTypeOK
  <2> QED
    BY <1>2, <2>1 DEF net_ConnectFails, NetTypeOK, callVars, lwipVars, histVars
<1>3. CASE net_Disconnect
  <2>1. QueueOK'
    BY <1>3, QueueUnchanged DEF net_Disconnect, NetTypeOK
  <2>2. pcb' \in [Conn -> PcbRecord]
    BY <1>0, <1>3, PcbUpdates DEF net_Disconnect
  <2> QED
    BY <1>3, <2>1, <2>2 DEF net_Disconnect, Then, PcbFault, NetTypeOK, PcbRecord,
                            Stage, DisconnectStage, DetachStage, instVars, callVars, histVars
<1>4. CASE netReadPacket
  <2>1. QueueOK'
    BY <1>4, QueueUnchanged DEF netReadPacket, NetTypeOK
  <2>2. len' \in 0..Uint16Max
    <3>1. len' = IF Contents = <<>> THEN 0 ELSE PbufLen[Head(Contents)]
      BY <1>4, NextPbufIsHead DEF netReadPacket, NetTypeOK
    <3>2. Contents # <<>> => Head(Contents) \in Pbuf
      BY ContentsType DEF NetTypeOK
    <3> QED
      BY <1>u, <3>1, <3>2, PbufLenAssumption
  <2>3. call' \in Stage /\ 0 \in 0..Uint16Max
    BY <1>u, <1>4 DEF netReadPacket, Stage, ReadStage
  <2> QED
    BY <1>4, <2>1, <2>2, <2>3 DEF netReadPacket, NetTypeOK, instVars, lwipVars, histVars
<1>5. CASE netWritePacket
  <2>1. QueueOK'
    BY <1>5, QueueUnchanged DEF netWritePacket, NetTypeOK
  <2> QED
    BY <1>5, <2>1 DEF netWritePacket, PcbFault, NetTypeOK, Stage, instVars, lwipVars,
                      histVars
<1>6. CASE ClearNotice
  <2>1. QueueOK'
    BY <1>6, QueueUnchanged DEF ClearNotice, NetTypeOK
  <2> QED
    BY <1>6, <2>1 DEF ClearNotice, NetTypeOK, callVars, lwipVars, histVars
<1>7. CASE FreeBuffer
  <2>1. QueueOK'
    BY <1>7, QueueUnchanged DEF FreeBuffer, NetTypeOK
  <2> QED
    BY <1>u, <1>7, <2>1 DEF FreeBuffer, NetTypeOK, instVars, lwipVars, histVars
<1> QED
  BY <1>1, <1>2, <1>3, <1>4, <1>5, <1>6, <1>7 DEF ClientStep

\* The steps of the three calls keep the types.
LEMMA CallStepType ==
    ASSUME NetTypeOK, HoldsPbuf, CallStep
    PROVE  NetTypeOK'
<1>0. pcb \in [Conn -> PcbRecord] /\ hNet \in Conn \cup {NoPcb}
  BY DEF NetTypeOK, PcbRecord
<1>u. Uint16Max \in Nat
  BY DEF Uint16Max
<1>1. CASE DisconnectDetach
  <2>1. QueueOK'
    BY <1>1, QueueUnchanged DEF DisconnectDetach, NetTypeOK
  <2>2. pcb' \in [Conn -> PcbRecord]
    <3>1. hNet # NoPcb => pcb[hNet].cb \in SUBSET Callback
      BY <1>0 DEF PcbRecord
    <3>2. hNet # NoPcb => pcb[hNet].cb \ {Cleared[call]} \in SUBSET Callback
      BY <3>1
    <3> QED
      BY <1>0, <1>1, <3>2, PcbUpdates DEF DisconnectDetach
  <2>3. call' \in Stage
    BY <1>1 DEF DisconnectDetach, Then, NextStage, Stage, DisconnectStage, DetachStage
  <2> QED
    BY <1>1, <2>1, <2>2, <2>3 DEF DisconnectDetach, Then, PcbFault, NetTypeOK, PcbRecord,
                                  instVars, callVars, histVars
<1>2. CASE DisconnectClose
  <2>1. QueueOK'
    BY <1>2, QueueUnchanged DEF DisconnectClose, NetTypeOK
  <2>2. pcb' \in [Conn -> PcbRecord]
    <3>1. hNet # NoPcb => [pcb EXCEPT ![hNet] = ClosedPcb] \in [Conn -> PcbRecord]
      BY <1>0, PcbUpdates
    <3> QED
      BY <1>0, <1>2, <3>1 DEF DisconnectClose, WithPcb
  <2>3. refused' \in [Conn -> Pbuf \cup {NULL}]
    BY <1>2 DEF DisconnectClose, WithPcb, NetTypeOK
  <2>4. call' \in Stage
    BY <1>2 DEF DisconnectClose, Then, NextStage, Stage, DisconnectStage
  <2>5. fault' \in {"none", "null_instance", "null_pcb", "freed_pcb"}
    BY <1>2 DEF DisconnectClose, Then, PcbFault
  <2> QED
    BY <1>2, <2>1, <2>2, <2>3, <2>4, <2>5 DEF DisconnectClose, NetTypeOK, PcbRecord,
                                              instVars, callVars, histVars
<1>3. CASE DisconnectForget
  <2>1. QueueOK'
    BY <1>3, QueueUnchanged DEF DisconnectForget, NetTypeOK
  <2>2. call' \in Stage
    BY <1>3 DEF DisconnectForget, NextStage, Stage, DisconnectStage
  <2>3. /\ hNet' \in Conn \cup {NoPcb}
        /\ isConnected' \in BOOLEAN /\ netWasDisconnected' \in BOOLEAN
    BY <1>3 DEF DisconnectForget, net_EventCb, NetTypeOK
  <2> QED
    BY <1>3, <2>1, <2>2, <2>3 DEF DisconnectForget, NetTypeOK, callVars, lwipVars, histVars
<1>4. CASE ReadMalloc
  <2>1. QueueOK'
    BY <1>4, QueueUnchanged DEF ReadMalloc, NetTypeOK
  <2> QED
    BY <1>u, <1>4, <2>1 DEF ReadMalloc, NetTypeOK, Stage, ReadStage, instVars, lwipVars,
                            histVars
<1>5. CASE ReadDequeue
  <2>1. QueueOK'
    BY <1>5, DequeueLeavesTail DEF ReadDequeue, NetTypeOK
  <2>2. pb' \in Pbuf \cup {NULL} /\ buf' = pb'
    BY <1>5, NextPbufIsHead, ContentsType DEF ReadDequeue, NetTypeOK
  <2>3. ret' \in 0..Uint16Max /\ len' \in 0..Uint16Max
    <3>1. pb' # NULL => PbufLen[pb'] \in 1..Uint16Max
      BY <2>2, PbufLenAssumption
    <3> QED
      BY <1>u, <1>5, <3>1 DEF ReadDequeue, NetTypeOK
  <2>4. call' \in Stage
    BY <1>5 DEF ReadDequeue, Stage, ReadStage
  <2> QED
    BY <1>5, <2>1, <2>2, <2>3, <2>4 DEF ReadDequeue, NetTypeOK, instVars, lwipVars, histVars
<1>6. CASE ReadRecved
  <2>1. QueueOK'
    BY <1>6, QueueUnchanged DEF ReadRecved, NetTypeOK
  <2> QED
    BY <1>6, <2>1 DEF ReadRecved, Then, PcbFault, NetTypeOK, Stage, ReadStage, instVars,
                      callVars, lwipVars, histVars
<1>7. CASE WriteOutput
  <2>1. QueueOK'
    BY <1>7, QueueUnchanged DEF WriteOutput, NetTypeOK
  <2> QED
    BY <1>7, <2>1 DEF WriteOutput, Then, PcbFault, NetTypeOK, Stage, instVars, callVars,
                      lwipVars, histVars
<1>8. CASE ReadFree
  <2>1. QueueOK'
    BY <1>8, QueueUnchanged DEF ReadFree, NetTypeOK
  <2>2. consumed' \in Seq(Pbuf)
    <3>1. consumed \in Seq(Pbuf) /\ pb \in Pbuf
      BY <1>8 DEF ReadFree, NetTypeOK, HoldsPbuf
    <3> QED BY <1>8, <3>1 DEF ReadFree
  <2> QED
    BY <1>8, <2>1, <2>2 DEF ReadFree, NetTypeOK, Stage, instVars, lwipVars
<1> QED
  BY <1>1, <1>2, <1>3, <1>4, <1>5, <1>6, <1>7, <1>8 DEF CallStep

-----------------------------------------------------------------------------
(* What becomes of the pbufs.                                               *)

\* The concatenations that say where a pbuf has gone: an element moves from the
\* head of what follows to what is held, from there to the end of what precedes,
\* and arrives at the end.
LEMMA MovingAlong ==
    ASSUME NEW S, NEW s \in Seq(S), NEW t \in Seq(S), NEW u \in Seq(S), NEW e \in S
    PROVE  /\ t # <<>> => s \o <<Head(t)>> \o Tail(t) = s \o <<>> \o t
           /\ Append(s, e) \o <<>> \o t = s \o <<e>> \o t
           /\ s \o u \o Append(t, e) = Append(s \o u \o t, e)
<1>1. s \o <<>> = s /\ <<e>> \in Seq(S) /\ s \o u \in Seq(S)
  BY ConcatEmptySeq, ConcatProperties
<1>2. ASSUME t # <<>> PROVE s \o <<Head(t)>> \o Tail(t) = s \o <<>> \o t
  <2>1. Head(t) \in S /\ Tail(t) \in Seq(S) /\ <<Head(t)>> \in Seq(S)
    BY <1>2, HeadTailProperties
  <2>2. <<Head(t)>> \o Tail(t) = t
    BY <1>2, HeadTailProperties
  <2> QED BY <1>1, <2>1, <2>2, ConcatAssociative
<1>3. Append(s, e) \o <<>> = s \o <<e>>
  BY AppendIsConcat, ConcatEmptySeq
<1>4. s \o u \o Append(t, e) = Append(s \o u \o t, e)
  <2>1. Append(t, e) = t \o <<e>>
    BY AppendIsConcat
  <2>2. (s \o u \o t) \in Seq(S)
    BY <1>1, ConcatProperties
  <2>3. Append(s \o u \o t, e) = (s \o u \o t) \o <<e>>
    BY <2>2, AppendIsConcat
  <2> QED BY <1>1, <2>1, <2>3, ConcatAssociative
<1> QED BY <1>2, <1>3, <1>4

\* An interrupt does nothing to the call it interrupts, and nothing to the queue
\* but put at most one pbuf in.
LEMMA InterruptEffect ==
    ASSUME NetTypeOK, Interrupt
    PROVE  /\ UNCHANGED <<call, callVars, consumed>>
           /\ \/ UNCHANGED <<queueVars, accepted>>
              \/ \E p \in Pbuf :
                    /\ net_EnqueuePbuf(p)
                    /\ accepted' = IF HasRoom THEN Append(accepted, p) ELSE accepted
<1> PICK c \in Conn :
        \/ LwipConnected(c) \/ LwipError(c) \/ LwipReceive(c) \/ LwipRedeliver(c)
        \/ LwipGivesUp(c) \/ LwipFin(c) \/ LwipPoll(c) \/ LwipSent(c)
  BY DEF Interrupt
<1> DEFINE Goal == /\ UNCHANGED <<call, callVars, consumed>>
                   /\ \/ UNCHANGED <<queueVars, accepted>>
                      \/ \E p \in Pbuf :
                            /\ net_EnqueuePbuf(p)
                            /\ accepted' = IF HasRoom THEN Append(accepted, p) ELSE accepted
<1>1. ASSUME NEW p \in Pbuf, net_ReceiveCb(c, p) PROVE Goal
  BY <1>1 DEF net_ReceiveCb
<1>2. CASE LwipReceive(c)
  <2>1. PICK k \in Kind :
          IF "recv" \in pcb[c].cb
          THEN net_ReceiveCb(c, [id |-> delivered + 1, conn |-> c, kind |-> k])
          ELSE UNCHANGED <<queueVars, instVars, call, callVars, pcb, refused, fault,
                           histVars>>
    BY <1>2 DEF LwipReceive
  <2>2. [id |-> delivered + 1, conn |-> c, kind |-> k] \in Pbuf
    <3>1. delivered + 1 \in 1..MaxPkt
      BY <1>2, BoundAssumption DEF LwipReceive, NetTypeOK
    <3> QED BY <3>1, PbufAssumption
  <2> QED BY <1>1, <2>1, <2>2 DEF histVars
<1>3. CASE LwipRedeliver(c)
  <2>1. refused[c] \in Pbuf
    BY <1>3 DEF LwipRedeliver, NetTypeOK
  <2> QED BY <1>1, <1>3, <2>1 DEF LwipRedeliver, histVars
<1>4. CASE \/ LwipConnected(c) \/ LwipError(c) \/ LwipGivesUp(c) \/ LwipFin(c)
           \/ LwipPoll(c) \/ LwipSent(c)
  BY <1>4 DEF LwipConnected, LwipError, LwipGivesUp, LwipFin, LwipPoll, LwipSent, netVars,
              histVars
<1> QED BY <1>2, <1>3, <1>4

\* The pbufs and the reading of them, at every point of every call.
ReadingInv == ReadInv /\ AcceptedPbufsAccountedFor

\* A callback keeps what net_ReadPacket holds while it is interrupted.
LEMMA InterruptReading ==
    ASSUME NetTypeOK, ReadingInv, Interrupt
    PROVE  ReadingInv'
<1>0. /\ QueueOK /\ Contents \in Seq(Pbuf)
      /\ consumed \in Seq(Pbuf) /\ Held \in Seq(Pbuf)
  <2>1. Held \in Seq(Pbuf)
    BY DEF NetTypeOK, Held
  <2> QED BY <2>1, ContentsType DEF NetTypeOK
<1>1. UNCHANGED <<call, len, pb, ret, buf, consumed>> /\ Held' = Held
  BY InterruptEffect DEF callVars, Held
<1>2. CASE UNCHANGED <<queueVars, accepted>>
  BY <1>1, <1>2, QueueUnchanged
     DEF ReadingInv, ReadInv, HoldsPbuf, AcceptedPbufsAccountedFor
<1>3. ASSUME NEW p \in Pbuf, net_EnqueuePbuf(p),
             accepted' = IF HasRoom THEN Append(accepted, p) ELSE accepted
      PROVE  ReadingInv'
  <2>1. Contents' = IF HasRoom THEN Append(Contents, p) ELSE Contents
    BY <1>0, <1>3, EnqueueAppends
  <2>2. AcceptedPbufsAccountedFor'
    <3>1. consumed \o Held \o Append(Contents, p) = Append(consumed \o Held \o Contents, p)
      BY <1>0, MovingAlong
    <3>2. CASE HasRoom
      BY <1>1, <1>3, <2>1, <3>1, <3>2 DEF ReadingInv, AcceptedPbufsAccountedFor
    <3>3. CASE ~HasRoom
      BY <1>1, <1>3, <2>1, <3>3 DEF ReadingInv, AcceptedPbufsAccountedFor
    <3> QED BY <3>2, <3>3
  <2>3. Contents # <<>> => Contents' # <<>> /\ Head(Contents') = Head(Contents)
    <3>1. CASE HasRoom
      <4>1. Contents' = Append(Contents, p)
        BY <2>1, <3>1
      <4>2. /\ Len(Append(Contents, p)) = Len(Contents) + 1
            /\ \A i \in 1..Len(Contents) : Append(Contents, p)[i] = Contents[i]
        BY <1>0, AppendProperties
      <4> QED BY <1>0, <4>1, <4>2
    <3>2. CASE ~HasRoom
      BY <2>1, <3>2
    <3> QED BY <3>1, <3>2
  <2> QED
    BY <1>1, <2>2, <2>3 DEF ReadingInv, ReadInv, HoldsPbuf
<1> QED BY <1>2, <1>3, InterruptEffect

\* So does the start of a call.
LEMMA ClientStepReading ==
    ASSUME NetTypeOK, ReadingInv, ClientStep
    PROVE  ReadingInv'
<1>1. /\ UNCHANGED <<queueVars, pb, consumed, accepted>> /\ call = "idle"
  BY DEF ClientStep, net_ConnectOk, net_ConnectFails, net_Disconnect, netReadPacket,
         netWritePacket, ClearNotice, FreeBuffer, callVars, histVars
<1>2. Contents' = Contents /\ Held' = Held
  BY <1>1, QueueUnchanged DEF Held
<1>3. AcceptedPbufsAccountedFor'
  BY <1>1, <1>2 DEF ReadingInv, AcceptedPbufsAccountedFor
<1>4. call' \notin {"read_dequeue", "read_recved", "read_free"}
  BY DEF ClientStep, net_ConnectOk, net_ConnectFails, net_Disconnect, netReadPacket,
         netWritePacket, ClearNotice, FreeBuffer, Then
<1>5. HoldsPbuf'
  BY <1>1, <1>4 DEF ReadingInv, ReadInv, HoldsPbuf
<1>6. CASE netReadPacket
  <2>1. len' = IF Contents = <<>> THEN 0 ELSE PbufLen[Head(Contents)]
    BY <1>6, NextPbufIsHead DEF netReadPacket, NetTypeOK
  <2> QED
    BY <1>2, <1>3, <1>4, <1>5, <1>6, <2>1 DEF netReadPacket, ReadingInv, ReadInv
<1>7. CASE ~netReadPacket
  <2>1. call' # "read_malloc" /\ (UNCHANGED <<ret, buf>> \/ buf' = NULL)
    BY <1>1, <1>7 DEF ClientStep, net_ConnectOk, net_ConnectFails, net_Disconnect,
                      netWritePacket, ClearNotice, FreeBuffer, Then, callVars
  <2> QED
    BY <1>3, <1>4, <1>5, <2>1 DEF ReadingInv, ReadInv
<1> QED BY <1>6, <1>7

\* So does every step of a call.
LEMMA CallStepReading ==
    ASSUME NetTypeOK, ReadingInv, CallStep
    PROVE  ReadingInv'
<1>0. /\ QueueOK /\ Contents \in Seq(Pbuf) /\ consumed \in Seq(Pbuf)
      /\ HoldsPbuf /\ AcceptedPbufsAccountedFor
  BY ContentsType DEF NetTypeOK, ReadingInv, ReadInv
<1>1. CASE \/ DisconnectDetach \/ DisconnectClose \/ DisconnectForget
           \/ ReadRecved \/ WriteOutput
  <2>1. UNCHANGED <<queueVars, callVars, consumed, accepted>>
    BY <1>1 DEF DisconnectDetach, DisconnectClose, DisconnectForget, ReadRecved,
                WriteOutput, histVars
  <2>2. /\ call \in {"read_recved", "read_free"} <=> call' \in {"read_recved", "read_free"}
        /\ call' \notin {"read_malloc", "read_dequeue"}
    BY <1>1 DEF DisconnectDetach, DisconnectClose, DisconnectForget, ReadRecved,
                WriteOutput, Then, NextStage, DetachStage
  <2>3. Contents' = Contents /\ UNCHANGED <<len, pb, ret, buf>>
    BY <2>1, QueueUnchanged DEF callVars
  <2> QED
    BY <2>1, <2>2, <2>3 DEF ReadingInv, ReadInv, HoldsPbuf, AcceptedPbufsAccountedFor, Held
<1>2. CASE ReadMalloc
  <2>1. /\ UNCHANGED <<queueVars, pb, buf, consumed, accepted>> /\ call = "read_malloc"
        /\ \/ call' = "read_dequeue" /\ UNCHANGED <<ret, len>>
           \/ call' = "idle"
    BY <1>2 DEF ReadMalloc, histVars
  <2>2. Contents' = Contents
    BY <2>1, QueueUnchanged
  <2> QED
    BY <2>1, <2>2 DEF ReadingInv, ReadInv, HoldsPbuf, AcceptedPbufsAccountedFor, Held
<1>3. CASE ReadDequeue
  <2>1. /\ Contents # <<>> /\ len = PbufLen[Head(Contents)] /\ pb = NULL
        /\ Head(Contents) \in Pbuf /\ Head(Contents) # NULL
    BY <1>0, <1>3, NullAssumption DEF ReadDequeue, ReadingInv, ReadInv, HoldsPbuf
  <2>2. Contents' = Tail(Contents) /\ pb' = Head(Contents)
    BY <1>0, <1>3, <2>1, DequeueLeavesTail, NextPbufIsHead DEF ReadDequeue
  <2>3. buf' = pb' /\ call' = "read_recved" /\ UNCHANGED <<consumed, accepted>>
    BY <1>3, <2>1, <2>2 DEF ReadDequeue, histVars
  <2>4. ret' = PbufLen[pb']
    <3>1. PbufLen[pb'] \in Nat
      BY <2>1, <2>2, PbufLenAssumption
    <3> QED BY <1>3, <2>1, <2>2, <3>1 DEF ReadDequeue
  <2>5. Held = <<>> /\ Held' = <<Head(Contents)>>
    BY <2>1, <2>2 DEF Held
  <2>6. AcceptedPbufsAccountedFor'
    BY <1>0, <2>1, <2>2, <2>3, <2>5, MovingAlong DEF AcceptedPbufsAccountedFor
  <2> QED
    BY <2>1, <2>2, <2>3, <2>4, <2>6 DEF ReadingInv, ReadInv, HoldsPbuf
<1>4. CASE ReadFree
  <2>1. /\ UNCHANGED <<queueVars, ret, buf, accepted>> /\ call = "read_free"
        /\ call' = "idle" /\ pb' = NULL /\ consumed' = Append(consumed, pb)
    BY <1>4 DEF ReadFree
  <2>2. pb \in Pbuf /\ pb # NULL
    BY <1>0, <2>1 DEF HoldsPbuf, NetTypeOK
  <2>3. Contents' = Contents /\ Held = <<pb>> /\ Held' = <<>>
    BY <2>1, <2>2, QueueUnchanged DEF Held
  <2>4. AcceptedPbufsAccountedFor'
    BY <1>0, <2>1, <2>2, <2>3, MovingAlong DEF AcceptedPbufsAccountedFor
  <2> QED
    BY <2>1, <2>4 DEF ReadingInv, ReadInv, HoldsPbuf
<1> QED
  BY <1>1, <1>2, <1>3, <1>4 DEF CallStep

-----------------------------------------------------------------------------
(* Who may call back.                                                       *)

\* A step that leaves the instance, the call and the control blocks alone.
LEMMA ConnUnchanged ==
    ASSUME ConnInv, UNCHANGED <<hNet, isConnected, call, pcb, fault>>
    PROVE  ConnInv'
  BY DEF ConnInv, OthersAreMute, ConnectionIsWhole, ConnectionIsDetached,
         FaultsOnlyWhileDetaching, Live

\* A callback with the instance as argument comes from its live connection, and
\* outside net_Disconnect, where nothing can go wrong with the handle.
LEMMA CallbackOfInstance ==
    ASSUME NetTypeOK, ConnInv, NEW c \in Conn, pcb[c].arg
    PROVE  /\ c = hNet /\ hNet # NoPcb /\ call \notin DisconnectStage
           /\ PcbFault = {"none"}
<1>1. c = hNet
  BY DEF ConnInv, OthersAreMute
<1>2. hNet # NoPcb
  BY <1>1, ConnIsNat
<1>3. call \notin DisconnectStage
  BY <1>1, <1>2 DEF ConnInv, ConnectionIsDetached
<1> QED
  BY <1>1, <1>2, <1>3 DEF ConnInv, ConnectionIsWhole, PcbFault, Live

\* Any callback comes from the connection of the instance; without the instance
\* as argument it comes inside net_Disconnect, before it is cleared.
LEMMA CallbackOfHandle ==
    ASSUME NetTypeOK, ConnInv, NEW c \in Conn, Live(c), NEW e \in pcb[c].cb
    PROVE  /\ c = hNet /\ hNet # NoPcb
           /\ ~pcb[c].arg => call \in DisconnectStage /\ e \in StillSet[call]
<1>1. c = hNet
  BY DEF ConnInv, OthersAreMute
<1>2. hNet # NoPcb
  BY <1>1, ConnIsNat
<1> QED
  BY <1>1, <1>2 DEF ConnInv, ConnectionIsWhole, ConnectionIsDetached

\* The connection drops: it is closed, the instance forgets it.
LEMMA Dropped ==
    ASSUME NetTypeOK, ConnInv, fault = "none", NEW c \in Conn, pcb[c].arg,
           NEW s \in {"closed", "closewait"},
           net_ErrorCb(TRUE, [pcb EXCEPT ![c].st = s]), call' = call
    PROVE  ConnInv'
<1>1. c = hNet /\ hNet # NoPcb /\ call \notin DisconnectStage /\ fault' = "none"
  BY CallbackOfInstance DEF net_ErrorCb
<1>2. hNet' = NoPcb /\ isConnected' = FALSE
  BY <1>1 DEF net_ErrorCb, Forget
<1>3. /\ pcb'[c] = ClosedPcb
      /\ \A d \in Conn : d # c => pcb'[d] = pcb[d]
  BY <1>1 DEF net_ErrorCb, WithPcb, NetTypeOK
<1>4. OthersAreMute'
  BY <1>1, <1>3 DEF ConnInv, OthersAreMute, Live, ClosedPcb
<1> QED
  BY <1>1, <1>2, <1>4 DEF ConnInv, ConnectionIsWhole, ConnectionIsDetached,
                          FaultsOnlyWhileDetaching

\* Without the instance as argument lwIP changes the state of a connection only.
LEMMA StateOnly ==
    ASSUME NetTypeOK, ConnInv, fault = "none", NEW c \in Conn, ~pcb[c].arg,
           NEW s \in {"established", "closed", "closewait"}, Live(c),
           pcb' = [pcb EXCEPT ![c].st = s], UNCHANGED <<hNet, isConnected, call>>,
           fault' = "none" \/
             /\ fault' = "null_instance"
             /\ call \in DetachStage \/ (call = "disc_close" /\ ~isConnected)
    PROVE  ConnInv'
<1>1. /\ pcb'[c].st = s /\ pcb'[c].arg = pcb[c].arg /\ pcb'[c].cb = pcb[c].cb
      /\ \A d \in Conn : d # c => pcb'[d] = pcb[d]
  BY DEF NetTypeOK
<1>2. OthersAreMute'
  BY <1>1 DEF ConnInv, OthersAreMute, Live
<1>3. ConnectionIsWhole'
  BY <1>1 DEF ConnInv, ConnectionIsWhole, NetTypeOK
<1>4. ConnectionIsDetached'
  BY <1>1 DEF ConnInv, ConnectionIsDetached, NetTypeOK, Live
<1>5. FaultsOnlyWhileDetaching'
  BY DEF FaultsOnlyWhileDetaching
<1> QED BY <1>2, <1>3, <1>4, <1>5 DEF ConnInv

\* A callback of lwIP keeps the state of the connections.
LEMMA InterruptConn ==
    ASSUME NetTypeOK, ConnInv, fault = "none", Interrupt
    PROVE  ConnInv'
<1> PICK c \in Conn :
        \/ LwipConnected(c) \/ LwipError(c) \/ LwipReceive(c) \/ LwipRedeliver(c)
        \/ LwipGivesUp(c) \/ LwipFin(c) \/ LwipPoll(c) \/ LwipSent(c)
  BY DEF Interrupt
<1>0. call' = call /\ pcb[c].arg \in BOOLEAN
  BY InterruptEffect DEF NetTypeOK
<1>1. CASE LwipConnected(c)
  <2>1. pcb[c].st = "connecting" /\ c = hNet /\ hNet # NoPcb /\ Live(c)
    BY <1>1, ConnIsNat DEF LwipConnected, ConnInv, OthersAreMute, Live
  <2>2. CASE pcb[c].arg
    <3>1. /\ call \notin DisconnectStage /\ fault' = "none" /\ hNet' = hNet
          /\ isConnected' = TRUE
      BY <1>1, <2>2, CallbackOfInstance DEF LwipConnected, net_ConnectedCb
    <3>2. /\ pcb'[c].st = "established" /\ pcb'[c].arg /\ pcb'[c].cb = Callback
          /\ \A d \in Conn : d # c => pcb'[d] = pcb[d]
      BY <1>1, <2>1, <2>2 DEF LwipConnected, net_ConnectedCb, NetTypeOK
    <3> QED
      BY <1>0, <2>1, <3>1, <3>2 DEF ConnInv, OthersAreMute, ConnectionIsWhole,
           ConnectionIsDetached, FaultsOnlyWhileDetaching, Live
  <2>3. CASE ~pcb[c].arg
    <3>1. /\ pcb' = [pcb EXCEPT ![c].st = "established"]
          /\ UNCHANGED <<hNet, isConnected>> /\ fault' = "null_instance"
      BY <1>1, <2>3 DEF LwipConnected, net_ConnectedCb, NullInstance, instVars
    <3>2. call \in DetachStage \/ (call = "disc_close" /\ ~isConnected)
      BY <2>1, <2>3 DEF ConnInv, ConnectionIsWhole, ConnectionIsDetached
    <3> QED BY <1>0, <2>1, <2>3, <3>1, <3>2, StateOnly
  <2> QED BY <2>2, <2>3
<1>2. CASE LwipError(c)
  <2> DEFINE dropped == [pcb EXCEPT ![c].st = "closed"]
  <2>1. Live(c)
    BY <1>2 DEF LwipError
  <2>2. CASE "err" \in pcb[c].cb /\ pcb[c].arg
    <3>1. net_ErrorCb(TRUE, dropped)
      BY <1>0, <1>2, <2>2 DEF LwipError, net_ErrorCb
    <3> QED BY <1>0, <2>2, <3>1, Dropped
  <2>3. CASE "err" \in pcb[c].cb /\ ~pcb[c].arg
    <3>1. pcb' = dropped /\ UNCHANGED <<hNet, isConnected>> /\ fault' = "null_instance"
      BY <1>2, <2>3 DEF LwipError, net_ErrorCb, NullInstance, instVars
    <3>2. call \in DetachStage
      BY <2>1, <2>3, CallbackOfHandle DEF StillSet, DisconnectStage
    <3> QED BY <1>0, <2>1, <2>3, <3>1, <3>2, StateOnly
  <2>4. CASE "err" \notin pcb[c].cb
    <3>1. pcb' = dropped /\ UNCHANGED <<hNet, isConnected, fault>>
      BY <1>2, <2>4 DEF LwipError, instVars
    <3>2. ~pcb[c].arg
      BY <2>1, <2>4, CallbackOfInstance DEF ConnInv, ConnectionIsWhole, Callback
    <3> QED BY <1>0, <2>1, <3>1, <3>2, StateOnly
  <2> QED BY <2>2, <2>3, <2>4
<1>3. CASE LwipReceive(c) \/ LwipRedeliver(c) \/ LwipGivesUp(c)
  <2>1. UNCHANGED <<hNet, isConnected, call, pcb, fault>>
    BY <1>3 DEF LwipReceive, LwipRedeliver, LwipGivesUp, net_ReceiveCb, instVars
  <2> QED BY <2>1, ConnUnchanged
<1>4. CASE LwipFin(c)
  <2>1. Live(c)
    BY <1>4 DEF LwipFin, Live
  <2>2. CASE "recv" \in pcb[c].cb /\ pcb[c].arg
    <3>1. net_ErrorCb(TRUE, [pcb EXCEPT ![c].st = "closewait"])
      BY <1>4, <2>2 DEF LwipFin
    <3> QED BY <1>0, <2>2, <3>1, Dropped
  <2>3. CASE ~("recv" \in pcb[c].cb /\ pcb[c].arg)
    <3>1. /\ \E s \in {"closed", "closewait"} : pcb' = [pcb EXCEPT ![c].st = s]
          /\ UNCHANGED <<hNet, isConnected, fault>>
      BY <1>4, <2>3 DEF LwipFin, instVars
    <3>2. ~pcb[c].arg
      BY <1>4, <2>3, CallbackOfInstance DEF LwipFin, ConnInv, ConnectionIsWhole, Callback
    <3> QED BY <1>0, <2>1, <3>1, <3>2, StateOnly
  <2> QED BY <2>2, <2>3
<1>5. CASE LwipPoll(c)
  <2>1. CASE pcb[c].arg
    BY <1>5, <2>1, ConnUnchanged DEF LwipPoll, lwipVars
  <2>2. CASE ~pcb[c].arg
    <3>1. /\ UNCHANGED <<hNet, isConnected, call, pcb>> /\ fault' = "null_instance"
      BY <1>5, <2>2 DEF LwipPoll, NullInstance, instVars, lwipVars
    <3>2. call \in DetachStage
      BY <1>5, <2>2, CallbackOfHandle DEF LwipPoll, StillSet, DisconnectStage
    <3> QED
      BY <3>1, <3>2 DEF ConnInv, OthersAreMute, ConnectionIsWhole, ConnectionIsDetached,
                        FaultsOnlyWhileDetaching, Live
  <2> QED BY <2>1, <2>2
<1>6. CASE LwipSent(c)
  BY <1>6, ConnUnchanged DEF LwipSent, netVars, instVars, lwipVars
<1> QED
  BY <1>1, <1>2, <1>3, <1>4, <1>5, <1>6

\* Giving lwIP the handle outside net_Disconnect: a null handle is the one hazard.
LEMMA HandleFault ==
    ASSUME NetTypeOK, ConnInv, call \notin DisconnectStage
    PROVE  PcbFault \subseteq {"none", "null_pcb"}
  BY DEF ConnInv, ConnectionIsWhole, PcbFault, Live

\* So does the start of a call.
LEMMA ClientStepConn ==
    ASSUME NetTypeOK, ConnInv, fault = "none", ClientStep
    PROVE  ConnInv'
<1>0. call = "idle" /\ call \notin DisconnectStage
  BY DEF ClientStep, net_ConnectOk, net_ConnectFails, net_Disconnect, netReadPacket,
         netWritePacket, ClearNotice, FreeBuffer, DisconnectStage, DetachStage
<1>1. ASSUME hNet = NoPcb, NEW c \in Conn, net_ConnectOk(c) PROVE ConnInv'
  <2>1. /\ hNet' = c /\ ~isConnected /\ isConnected' = isConnected
        /\ call' = call /\ fault' = "none"
    BY <1>0, <1>1 DEF net_ConnectOk, ConnInv, ConnectionIsWhole
  <2>2. /\ pcb'[c] = [st |-> "connecting", arg |-> TRUE, cb |-> {"err"}]
        /\ \A d \in Conn : d # c => pcb'[d] = pcb[d]
    BY <1>1 DEF net_ConnectOk, NetTypeOK
  <2>3. \A d \in Conn : d # hNet
    BY <1>1, ConnIsNat
  <2> QED
    BY <1>0, <2>1, <2>2, <2>3 DEF ConnInv, OthersAreMute, ConnectionIsWhole,
         ConnectionIsDetached, FaultsOnlyWhileDetaching, Live
<1>2. CASE hNet = NoPcb /\ net_ConnectFails
  <2>1. UNCHANGED <<hNet, isConnected, call, pcb, fault>>
    BY <1>0, <1>2 DEF net_ConnectFails, ConnInv, ConnectionIsWhole, lwipVars, NetTypeOK
  <2> QED BY <2>1, ConnUnchanged
<1>3. CASE net_Disconnect
  <2>1. /\ UNCHANGED <<hNet, isConnected>> /\ call' = "disc_sent"
        /\ fault' \in {"none", "null_pcb"}
    BY <1>0, <1>3, HandleFault DEF net_Disconnect, Then, instVars
  <2>2. hNet = NoPcb => pcb' = pcb
    BY <1>3 DEF net_Disconnect
  <2>3. hNet # NoPcb =>
          /\ pcb'[hNet].st = pcb[hNet].st /\ ~pcb'[hNet].arg /\ pcb'[hNet].cb = pcb[hNet].cb
          /\ \A d \in Conn : d # hNet => pcb'[d] = pcb[d]
    BY <1>3 DEF net_Disconnect, NetTypeOK
  <2>4. hNet # NoPcb => pcb[hNet].cb \subseteq Callback
    BY DEF NetTypeOK
  <2>5. OthersAreMute'
    BY <2>1, <2>2, <2>3 DEF ConnInv, OthersAreMute, Live
  <2>6. ConnectionIsDetached'
    BY <1>0, <2>1, <2>2, <2>3, <2>4 DEF ConnInv, ConnectionIsWhole, ConnectionIsDetached,
         StillSet, DetachStage
  <2>7. call' \in DisconnectStage
    BY <2>1 DEF DisconnectStage, DetachStage
  <2> QED
    BY <2>1, <2>5, <2>6, <2>7 DEF ConnInv, ConnectionIsWhole, FaultsOnlyWhileDetaching
<1>4. CASE netReadPacket \/ netWritePacket \/ ClearNotice \/ FreeBuffer
  <2>1. /\ UNCHANGED <<hNet, isConnected, pcb>> /\ call' \notin DisconnectStage
        /\ fault' \in {"none", "null_pcb"}
    BY <1>0, <1>4, HandleFault DEF netReadPacket, netWritePacket, ClearNotice, FreeBuffer,
         instVars, lwipVars, DisconnectStage, DetachStage
  <2> QED
    BY <1>0, <2>1 DEF ConnInv, OthersAreMute, ConnectionIsWhole, ConnectionIsDetached,
         FaultsOnlyWhileDetaching, Live
<1> QED
  BY <1>1, <1>2, <1>3, <1>4 DEF ClientStep

\* So does every step of a call.
LEMMA CallStepConn ==
    ASSUME NetTypeOK, ConnInv, fault = "none", CallStep
    PROVE  ConnInv'
<1>1. CASE DisconnectDetach
  <2>1. /\ call \in DetachStage /\ call' = NextStage[call]
        /\ UNCHANGED <<hNet, isConnected>> /\ fault' # "null_instance"
    BY <1>1 DEF DisconnectDetach, Then, PcbFault, instVars
  <2>2. hNet = NoPcb => pcb' = pcb
    BY <1>1 DEF DisconnectDetach
  <2>3. hNet # NoPcb =>
          /\ pcb'[hNet].st = pcb[hNet].st /\ pcb'[hNet].arg = pcb[hNet].arg
          /\ pcb'[hNet].cb = pcb[hNet].cb \ {Cleared[call]}
          /\ \A d \in Conn : d # hNet => pcb'[d] = pcb[d]
    BY <1>1 DEF DisconnectDetach, NetTypeOK
  <2>4. OthersAreMute'
    BY <2>1, <2>2, <2>3 DEF ConnInv, OthersAreMute, Live
  <2>5. StillSet[call'] = StillSet[call] \ {Cleared[call]}
    BY <2>1 DEF StillSet, Cleared, NextStage, DetachStage, Callback
  <2>6. /\ call \in DisconnectStage /\ call' \in DisconnectStage
        /\ call' \in DetachStage \cup {"disc_close"}
    BY <2>1 DEF NextStage, DetachStage, DisconnectStage
  <2>7. ConnectionIsDetached'
    <3>1. call' \notin {"disc_isConnected", "disc_event"}
      BY <2>6 DEF DetachStage
    <3> QED
      BY <2>1, <2>2, <2>3, <2>5, <2>6, <3>1 DEF ConnInv, ConnectionIsDetached, Live
  <2> QED
    BY <2>1, <2>4, <2>6, <2>7 DEF ConnInv, ConnectionIsWhole, FaultsOnlyWhileDetaching
<1>2. CASE DisconnectClose
  <2>1. /\ call = "disc_close" /\ call' = "disc_hNet"
        /\ UNCHANGED <<hNet, isConnected>> /\ fault' # "null_instance"
    BY <1>2 DEF DisconnectClose, Then, NextStage, PcbFault, instVars
  <2>2. hNet = NoPcb => pcb' = pcb
    BY <1>2 DEF DisconnectClose, WithPcb
  <2>3. hNet # NoPcb =>
          /\ pcb'[hNet] = ClosedPcb \/ (pcb'[hNet] = pcb[hNet] /\ pcb[hNet].st # "connecting")
          /\ \A d \in Conn : d # hNet => pcb'[d] = pcb[d]
    BY <1>2 DEF DisconnectClose, WithPcb, NetTypeOK
  <2>4. OthersAreMute'
    BY <2>1, <2>2, <2>3 DEF ConnInv, OthersAreMute, Live
  <2>5. call \in DisconnectStage /\ call' \in DisconnectStage
    BY <2>1 DEF DisconnectStage
  <2>6. ConnectionIsDetached'
    BY <2>1, <2>2, <2>3, <2>5 DEF ConnInv, ConnectionIsDetached, StillSet, Live, ClosedPcb
  <2> QED
    BY <2>1, <2>4, <2>5, <2>6 DEF ConnInv, ConnectionIsWhole, FaultsOnlyWhileDetaching
<1>3. CASE DisconnectForget
  <2>1. UNCHANGED <<pcb, fault>>
    BY <1>3 DEF DisconnectForget, lwipVars
  <2>2. CASE call = "disc_hNet"
    <3>1. call' = "disc_isConnected" /\ hNet' = NoPcb /\ isConnected' = isConnected
      BY <1>3, <2>2 DEF DisconnectForget, NextStage
    <3>2. call \in DisconnectStage /\ call' \in DisconnectStage
      BY <2>2, <3>1 DEF DisconnectStage
    <3>3. OthersAreMute'
      BY <2>1, <2>2, <3>1, <3>2 DEF ConnInv, OthersAreMute, ConnectionIsDetached, StillSet,
                                    DetachStage, Live
    <3> QED
      BY <2>1, <3>1, <3>2, <3>3 DEF ConnInv, ConnectionIsWhole, ConnectionIsDetached,
           FaultsOnlyWhileDetaching
  <2>3. CASE call = "disc_isConnected"
    <3>1. call' = "disc_event" /\ hNet' = hNet /\ isConnected' = FALSE
      BY <1>3, <2>3 DEF DisconnectForget, NextStage
    <3>2. call \in DisconnectStage /\ call' \in DisconnectStage
      BY <2>3, <3>1 DEF DisconnectStage
    <3> QED
      BY <2>1, <2>3, <3>1, <3>2 DEF ConnInv, OthersAreMute, ConnectionIsWhole,
           ConnectionIsDetached, FaultsOnlyWhileDetaching, Live
  <2>4. CASE call = "disc_event"
    <3>1. call' = "idle" /\ hNet' = hNet /\ isConnected' = isConnected
      BY <1>3, <2>4 DEF DisconnectForget, NextStage
    <3>2. call \in DisconnectStage /\ call' \notin DisconnectStage
      BY <2>4, <3>1 DEF DisconnectStage, DetachStage
    <3> QED
      BY <2>1, <2>4, <3>1, <3>2 DEF ConnInv, OthersAreMute, ConnectionIsWhole,
           ConnectionIsDetached, FaultsOnlyWhileDetaching, Live
  <2> QED BY <1>3, <2>2, <2>3, <2>4 DEF DisconnectForget
<1>4. CASE ReadMalloc \/ ReadDequeue \/ ReadRecved \/ ReadFree \/ WriteOutput
  <2>1. call \notin DisconnectStage /\ call' \notin DisconnectStage
    BY <1>4 DEF ReadMalloc, ReadDequeue, ReadRecved, ReadFree, WriteOutput, Then,
                DisconnectStage, DetachStage
  <2>2. UNCHANGED <<hNet, isConnected, pcb>> /\ fault' \in {"none", "null_pcb"}
    BY <1>4, <2>1, HandleFault DEF ReadMalloc, ReadDequeue, ReadRecved, ReadFree,
         WriteOutput, Then, instVars, lwipVars
  <2> QED
    BY <2>1, <2>2 DEF ConnInv, OthersAreMute, ConnectionIsWhole, ConnectionIsDetached,
         FaultsOnlyWhileDetaching, Live
<1> QED
  BY <1>1, <1>2, <1>3, <1>4 DEF CallStep

-----------------------------------------------------------------------------
(* The order of the packets.                                                *)

\* The ids that are compared are numbers.
LEMMA IdsAreNat ==
    ASSUME NetTypeOK
    PROVE  /\ delivered \in Nat
           /\ \A c \in Conn : refused[c] # NULL => refused[c].id \in Nat
           /\ \A i \in 1..Len(accepted) : accepted[i].id \in Nat
<1>1. \A p \in Pbuf : p.id \in Nat
  BY PbufAssumption, BoundAssumption
<1>2. delivered \in 0..MaxPkt /\ refused \in [Conn -> Pbuf \cup {NULL}]
  BY DEF NetTypeOK
<1>3. accepted \in Seq(Pbuf)
  BY DEF NetTypeOK
<1>4. \A i \in 1..Len(accepted) : accepted[i] \in Pbuf
  BY <1>3
<1> QED BY <1>1, <1>2, <1>4, BoundAssumption

\* Nothing is accepted, and what lwIP kept it keeps, or has dropped.
LEMMA OrderKept ==
    ASSUME NetTypeOK, OrderInv, accepted' = accepted,
           delivered' \in Nat, delivered <= delivered',
           \A c \in Conn : refused'[c] # NULL =>
               /\ refused'[c] = refused[c]
               /\ pcb[c].st # "unused" => pcb'[c].st # "unused"
               /\ pcb'[c].arg => pcb[c].arg \/ pcb[c].st = "unused"
    PROVE  OrderInv'
<1>1. /\ delivered \in Nat
      /\ \A c \in Conn : refused[c] # NULL => refused[c].id \in Nat
      /\ \A i \in 1..Len(accepted) : accepted[i].id \in Nat
  BY IdsAreNat
<1>2. PacketsInOrder'
  BY DEF OrderInv, PacketsInOrder
<1>3. (\A i \in 1..Len(accepted) : accepted[i].id <= delivered)'
  BY <1>1 DEF OrderInv
<1>4. ASSUME NEW c \in Conn, refused'[c] # NULL
      PROVE  /\ refused'[c].conn = c /\ refused'[c].id <= delivered'
             /\ pcb'[c].st # "unused"
             /\ pcb'[c].arg => \A i \in 1..Len(accepted') : accepted'[i].id < refused'[c].id
  BY <1>1, <1>4 DEF OrderInv
<1> QED BY <1>2, <1>3, <1>4 DEF OrderInv

\* net_ReceiveCb gets a pbuf that is younger than all that were accepted.
LEMMA OrderReceive ==
    ASSUME NetTypeOK, ConnInv, OrderInv, NEW c \in Conn, NEW p \in Pbuf,
           net_ReceiveCb(c, p), p.conn = c, pcb[c].st = "established",
           delivered' \in Nat, delivered <= delivered', p.id <= delivered',
           pcb[c].arg => \A i \in 1..Len(accepted) : accepted[i].id < p.id
    PROVE  OrderInv'
<1>1. /\ delivered \in Nat /\ p.id \in Nat /\ accepted \in Seq(Pbuf) /\ pcb' = pcb
      /\ \A d \in Conn : refused[d] # NULL => refused[d].id \in Nat
      /\ \A i \in 1..Len(accepted) : accepted[i].id \in Nat
  <2>1. p.id \in Nat
    BY PbufAssumption, BoundAssumption
  <2>2. accepted \in Seq(Pbuf) /\ pcb' = pcb
    BY DEF NetTypeOK, net_ReceiveCb
  <2> QED BY <2>1, <2>2, IdsAreNat
<1>2. CASE ~pcb[c].arg
  <2>1. accepted' = accepted /\ \A d \in Conn : refused'[d] # NULL => refused'[d] = refused[d]
    BY <1>2 DEF net_ReceiveCb, NetTypeOK
  <2> QED BY <1>1, <2>1, OrderKept
<1>3. CASE pcb[c].arg /\ ~HasRoom
  <2>1. /\ accepted' = accepted /\ refused'[c] = p
        /\ \A d \in Conn : d # c => refused'[d] = refused[d]
    BY <1>3 DEF net_ReceiveCb, NetTypeOK, Kept
  <2>2. PacketsInOrder'
    BY <1>3, <2>1 DEF OrderInv, PacketsInOrder
  <2>3. (\A i \in 1..Len(accepted) : accepted[i].id <= delivered)'
    BY <1>1, <2>1 DEF OrderInv
  <2>4. ASSUME NEW d \in Conn, refused'[d] # NULL
        PROVE  /\ refused'[d].conn = d /\ refused'[d].id <= delivered'
               /\ pcb'[d].st # "unused"
               /\ pcb'[d].arg =>
                     \A i \in 1..Len(accepted') : accepted'[i].id < refused'[d].id
    BY <1>1, <1>3, <2>1, <2>4 DEF OrderInv
  <2> QED BY <2>2, <2>3, <2>4 DEF OrderInv
<1>4. CASE pcb[c].arg /\ HasRoom
  <2>1. /\ accepted' = Append(accepted, p) /\ refused'[c] = NULL
        /\ \A d \in Conn : d # c => refused'[d] = refused[d]
    BY <1>4 DEF net_ReceiveCb, NetTypeOK, Kept
  <2>2. /\ Len(accepted') = Len(accepted) + 1 /\ Len(accepted) \in Nat
        /\ \A i \in 1..Len(accepted) : accepted'[i] = accepted[i]
        /\ accepted'[Len(accepted) + 1] = p
    BY <1>1, <2>1, AppendProperties
  <2>3. \A d \in Conn : d # c => ~pcb[d].arg
    BY <1>4, CallbackOfInstance DEF ConnInv, OthersAreMute
  <2>4. \A i, j \in 1..Len(accepted') : i < j => accepted'[i].id < accepted'[j].id
    <3> SUFFICES ASSUME NEW i \in 1..Len(accepted'), NEW j \in 1..Len(accepted'), i < j
                 PROVE  accepted'[i].id < accepted'[j].id
      OBVIOUS
    <3>1. i \in 1..Len(accepted) /\ (j \in 1..Len(accepted) \/ j = Len(accepted) + 1)
      BY <2>2
    <3> QED BY <1>4, <2>2, <3>1 DEF OrderInv, PacketsInOrder
  <2>5. ASSUME NEW d \in Conn, refused'[d] # NULL, NEW i \in 1..Len(accepted'),
               accepted'[i].conn = d
        PROVE  accepted'[i].id < refused'[d].id
    <3>1. d # c /\ refused'[d] = refused[d]
      BY <2>1, <2>5
    <3>2. i \in 1..Len(accepted)
      BY <2>2, <2>5, <3>1
    <3> QED BY <2>2, <2>5, <3>1, <3>2 DEF OrderInv, PacketsInOrder
  <2>6. ASSUME NEW i \in 1..Len(accepted') PROVE accepted'[i].id <= delivered'
    <3>1. i \in 1..Len(accepted) \/ i = Len(accepted) + 1
      BY <2>2
    <3> QED BY <1>1, <2>2, <3>1 DEF OrderInv
  <2>7. ASSUME NEW d \in Conn, refused'[d] # NULL
        PROVE  /\ refused'[d].conn = d /\ refused'[d].id <= delivered'
               /\ pcb'[d].st # "unused" /\ ~pcb'[d].arg
    BY <1>1, <2>1, <2>3, <2>7 DEF OrderInv
  <2> QED BY <2>4, <2>5, <2>6, <2>7 DEF OrderInv, PacketsInOrder
<1> QED BY <1>2, <1>3, <1>4

\* A callback keeps the packets in the order in which they were accepted.
LEMMA InterruptOrder ==
    ASSUME NetTypeOK, ConnInv, OrderInv, Interrupt
    PROVE  OrderInv'
<1> PICK c \in Conn :
        \/ LwipConnected(c) \/ LwipError(c) \/ LwipReceive(c) \/ LwipRedeliver(c)
        \/ LwipGivesUp(c) \/ LwipFin(c) \/ LwipPoll(c) \/ LwipSent(c)
  BY DEF Interrupt
<1>0. delivered \in Nat
  BY BoundAssumption DEF NetTypeOK
<1>1. CASE LwipReceive(c)
  <2>1. delivered' = delivered + 1 /\ delivered + 1 \in 1..MaxPkt
    BY <1>0, <1>1, BoundAssumption DEF LwipReceive
  <2>2. PICK k \in Kind :
          IF "recv" \in pcb[c].cb
          THEN net_ReceiveCb(c, [id |-> delivered + 1, conn |-> c, kind |-> k])
          ELSE UNCHANGED <<queueVars, instVars, call, callVars, pcb, refused, fault,
                           histVars>>
    BY <1>1 DEF LwipReceive
  <2> DEFINE p == [id |-> delivered + 1, conn |-> c, kind |-> k]
  <2>3. CASE "recv" \in pcb[c].cb
    <3>1. net_ReceiveCb(c, p) /\ p \in Pbuf /\ p.conn = c /\ p.id = delivered + 1
      BY <2>1, <2>2, <2>3, PbufAssumption
    <3>2. \A i \in 1..Len(accepted) : accepted[i].id \in Nat /\ accepted[i].id <= delivered
      BY IdsAreNat DEF OrderInv
    <3>3. pcb[c].st = "established"
      BY <1>1 DEF LwipReceive
    <3> HIDE DEF p
    <3> QED BY <1>0, <2>1, <3>1, <3>2, <3>3, OrderReceive
  <2>4. CASE "recv" \notin pcb[c].cb
    BY <1>0, <2>1, <2>2, <2>4, OrderKept DEF histVars
  <2> QED BY <2>3, <2>4
<1>2. CASE LwipRedeliver(c)
  <2>1. /\ delivered' = delivered /\ refused[c] \in Pbuf /\ refused[c] # NULL
        /\ pcb[c].st = "established" /\ net_ReceiveCb(c, refused[c])
    BY <1>2 DEF LwipRedeliver, NetTypeOK
  <2>2. /\ refused[c].conn = c /\ refused[c].id <= delivered
        /\ pcb[c].arg => \A i \in 1..Len(accepted) : accepted[i].id < refused[c].id
    BY <2>1 DEF OrderInv
  <2> QED BY <1>0, <2>1, <2>2, OrderReceive
<1>g. CASE LwipGivesUp(c)
  <2>1. /\ delivered' = delivered /\ accepted' = accepted /\ pcb' = pcb
        /\ \A d \in Conn : refused'[d] # NULL => refused'[d] = refused[d]
    BY <1>g DEF LwipGivesUp, histVars, NetTypeOK
  <2> QED BY <1>0, <2>1, OrderKept
<1>3. CASE LwipConnected(c) \/ LwipError(c) \/ LwipFin(c)
  <2>1. /\ accepted' = accepted /\ delivered' = delivered
        /\ \A d \in Conn : refused'[d] # NULL => refused'[d] = refused[d]
    BY <1>3 DEF LwipConnected, LwipError, LwipFin, histVars, NetTypeOK
  <2>2. \A d \in Conn : /\ pcb[d].st # "unused" => pcb'[d].st # "unused"
                        /\ pcb'[d].arg => pcb[d].arg
    <3> DEFINE p(s) == [pcb EXCEPT ![c].st = s]
    <3>1. ASSUME NEW s \in {"established", "closed", "closewait"}, NEW d \in Conn
          PROVE  /\ p(s)[d].st = IF d = c THEN s ELSE pcb[d].st
                 /\ p(s)[d].arg = pcb[d].arg
                 /\ p(s)[d].cb = pcb[d].cb
      BY DEF NetTypeOK
    <3>2. PICK s \in {"established", "closed", "closewait"} :
            \/ pcb' = p(s)
            \/ hNet # NoPcb /\ pcb' = [p(s) EXCEPT ![hNet] = ClosedPcb]
            \/ hNet # NoPcb /\ pcb' = [p(s) EXCEPT ![hNet].cb = Callback]
      <4>1. CASE LwipConnected(c)
        BY <4>1 DEF LwipConnected, net_ConnectedCb
      <4>2. CASE LwipError(c)
        BY <4>2 DEF LwipError, net_ErrorCb, WithPcb
      <4>3. CASE LwipFin(c)
        BY <4>3 DEF LwipFin, net_ErrorCb, WithPcb
      <4> QED BY <1>3, <4>1, <4>2, <4>3
    <3>3. p(s) \in [Conn -> PcbRecord]
      BY PcbUpdates DEF NetTypeOK, PcbRecord
    <3> HIDE DEF p
    <3>4. ASSUME NEW d \in Conn
          PROVE  \/ pcb'[d] = ClosedPcb
                 \/ pcb'[d].st = p(s)[d].st /\ pcb'[d].arg = p(s)[d].arg
      BY <3>2, <3>3 DEF PcbRecord
    <3> QED BY <3>1, <3>4 DEF ClosedPcb
  <2> QED BY <1>0, <2>1, <2>2, OrderKept
<1>4. CASE LwipPoll(c) \/ LwipSent(c)
  BY <1>0, <1>4, OrderKept DEF LwipPoll, LwipSent, netVars, lwipVars, histVars
<1> QED
  BY <1>1, <1>2, <1>g, <1>3, <1>4

\* The application accepts nothing.
LEMMA ApplicationOrder ==
    ASSUME NetTypeOK, OrderInv, ClientStep \/ CallStep
    PROVE  OrderInv'
<1>0. delivered \in Nat
  BY BoundAssumption DEF NetTypeOK
<1>1. accepted' = accepted /\ delivered' = delivered
  BY DEF ClientStep, net_ConnectOk, net_ConnectFails, net_Disconnect, netReadPacket,
         netWritePacket, ClearNotice, FreeBuffer, CallStep, DisconnectDetach,
         DisconnectClose, DisconnectForget, ReadMalloc, ReadDequeue, ReadRecved, ReadFree,
         WriteOutput, lwipVars, histVars
<1>2. ASSUME NEW c \in Conn, net_ConnectOk(c) PROVE OrderInv'
  <2>1. refused' = refused /\ \A d \in Conn : d # c => pcb'[d] = pcb[d]
    BY <1>2 DEF net_ConnectOk, NetTypeOK
  <2>2. pcb[c].st = "unused" /\ pcb'[c].st # "unused"
    BY <1>2 DEF net_ConnectOk, NetTypeOK
  <2> QED BY <1>0, <1>1, <2>1, <2>2, OrderKept
<1>3. CASE net_Disconnect \/ DisconnectDetach
  <2>1. refused' = refused
    BY <1>3 DEF net_Disconnect, DisconnectDetach
  <2>2. ASSUME NEW d \in Conn PROVE pcb'[d].st = pcb[d].st /\ (pcb'[d].arg => pcb[d].arg)
    <3>1. CASE net_Disconnect
      BY <3>1 DEF net_Disconnect, NetTypeOK
    <3>2. CASE DisconnectDetach
      BY <3>2 DEF DisconnectDetach, NetTypeOK
    <3> QED BY <1>3, <3>1, <3>2
  <2> QED BY <1>0, <1>1, <2>1, <2>2, OrderKept
<1>4. CASE DisconnectClose
  <2>1. \A d \in Conn : refused'[d] # NULL => refused'[d] = refused[d]
    BY <1>4 DEF DisconnectClose, WithPcb, NetTypeOK
  <2>2. \A d \in Conn : pcb'[d] = pcb[d] \/ pcb'[d] = ClosedPcb
    BY <1>4 DEF DisconnectClose, WithPcb, NetTypeOK
  <2> QED BY <1>0, <1>1, <2>1, <2>2, OrderKept DEF ClosedPcb
<1>5. CASE \/ net_ConnectFails \/ netReadPacket \/ netWritePacket \/ ClearNotice
           \/ FreeBuffer \/ DisconnectForget \/ ReadMalloc \/ ReadDequeue \/ ReadRecved
           \/ ReadFree \/ WriteOutput
  <2>1. UNCHANGED <<pcb, refused>>
    BY <1>5 DEF net_ConnectFails, netReadPacket, netWritePacket, ClearNotice, FreeBuffer,
                DisconnectForget, ReadMalloc, ReadDequeue, ReadRecved, ReadFree,
                WriteOutput, lwipVars
  <2> QED BY <1>0, <1>1, <2>1, OrderKept
<1> QED
  BY <1>2, <1>3, <1>4, <1>5 DEF ClientStep, CallStep

-----------------------------------------------------------------------------
(* The theorems.                                                            *)

\* Everything above in one inductive invariant.
NetInv ==
    /\ NetTypeOK
    /\ ReadingInv
    /\ ConnInv
    /\ OrderInv

\* The invariant holds when the program starts.
LEMMA NetInvInit == NetInit => NetInv
<1> SUFFICES ASSUME NetInit PROVE NetInv
  OBVIOUS
<1>1. QueueOK /\ Contents = <<>>
  <2>1. idx \in Slot /\ odx \in Slot /\ idx = odx
    BY QueueSizeAssumption DEF NetInit, QueueInit, Slot
  <2>2. Size = 0
    BY <2>1, DistanceCases DEF Size, Slot
  <2>3. queue \in [Slot -> Pbuf \cup {NULL}]
    BY DEF NetInit, QueueInit
  <2>4. QueueOK
    BY <2>1, <2>2, <2>3 DEF QueueOK
  <2> QED BY <2>1, <2>4, ContentsType DEF IsEmpty
<1>2. pcb \in [Conn -> PcbRecord] /\ \A c \in Conn : pcb[c] = UnusedPcb
  BY DEF NetInit, PcbRecord, UnusedPcb
<1>3. NetTypeOK
  <2>1. 0 \in 0..Uint16Max /\ 0 \in 0..MaxPkt
    BY BoundAssumption DEF Uint16Max
  <2>2. hNet \in Conn \cup {NoPcb} /\ call \in Stage
    BY DEF NetInit, Stage
  <2>3. refused \in [Conn -> Pbuf \cup {NULL}]
    BY DEF NetInit
  <2>4. accepted \in Seq(Pbuf) /\ consumed \in Seq(Pbuf)
    BY DEF NetInit
  <2> QED BY <1>1, <1>2, <2>1, <2>2, <2>3, <2>4 DEF NetInit, NetTypeOK, PcbRecord
<1>4. ReadingInv
  <2>1. accepted = consumed \o Held \o Contents
    BY <1>1 DEF NetInit, Held
  <2> QED
    BY <2>1 DEF NetInit, ReadingInv, ReadInv, HoldsPbuf, AcceptedPbufsAccountedFor
<1>5. ConnInv
  BY <1>2 DEF NetInit, ConnInv, OthersAreMute, ConnectionIsWhole, ConnectionIsDetached,
              FaultsOnlyWhileDetaching, UnusedPcb, Live, DisconnectStage, DetachStage
<1>6. OrderInv
  BY DEF NetInit, OrderInv, PacketsInOrder
<1> QED BY <1>3, <1>4, <1>5, <1>6 DEF NetInv

\* Every step of the client, of a call or of lwIP keeps the invariant.
LEMMA NetInvStep == NetInv /\ [NetNext]_netVars => NetInv'
<1> SUFFICES ASSUME NetInv, [NetNext]_netVars PROVE NetInv'
  OBVIOUS
<1>0. NetTypeOK /\ ReadingInv /\ HoldsPbuf /\ ConnInv /\ OrderInv
  BY DEF NetInv, ReadingInv, ReadInv
<1>1. CASE fault = "none" /\ Interrupt
  BY <1>0, <1>1, InterruptType, InterruptReading, InterruptConn, InterruptOrder DEF NetInv
<1>2. CASE fault = "none" /\ ClientStep
  BY <1>0, <1>2, ClientStepType, ClientStepReading, ClientStepConn, ApplicationOrder
     DEF NetInv
<1>3. CASE fault = "none" /\ CallStep
  BY <1>0, <1>3, CallStepType, CallStepReading, CallStepConn, ApplicationOrder DEF NetInv
<1>4. CASE UNCHANGED netVars
  <2>1. QueueOK' = QueueOK /\ Contents' = Contents
    BY <1>4, QueueUnchanged DEF netVars
  <2>2. /\ UNCHANGED <<hNet, isConnected, netWasDisconnected, call, len, pb, ret, buf,
                       written, pcb, refused, delivered, fault>>
        /\ UNCHANGED <<accepted, consumed, leaked>>
    BY <1>4 DEF netVars, instVars, callVars, lwipVars, histVars
  <2>3. NetTypeOK'
    BY <1>0, <2>1, <2>2 DEF NetTypeOK
  <2>4. ReadingInv'
    BY <1>0, <2>1, <2>2 DEF ReadingInv, ReadInv, HoldsPbuf, AcceptedPbufsAccountedFor, Held
  <2>5. ConnInv'
    BY <1>0, <2>2, ConnUnchanged
  <2>6. OrderInv'
    BY <1>0, <2>2 DEF OrderInv, PacketsInOrder
  <2> QED BY <2>3, <2>4, <2>5, <2>6 DEF NetInv
<1> QED
  BY <1>1, <1>2, <1>3, <1>4 DEF NetNext, Halted

\* The inductive invariant holds in every reachable state.
THEOREM NetInvariant == NetSpec => []NetInv
<1> QED BY NetInvInit, NetInvStep, PTL DEF NetSpec

\* No call of net_client.c and no callback leaves the instance, the queue, the
\* call in progress or lwIP's control blocks in a state outside their types.
THEOREM NetClientTypes == NetSpec => []NetTypeOK
<1>1. NetInv => NetTypeOK
  BY DEF NetInv
<1> QED BY <1>1, NetInvariant, PTL

\* However net_ReceiveCb interrupts net_ReadPacket, each accepted pbuf is freed
\* once after being read, is being read, or is queued, in the order of arrival.
THEOREM PbufsAreAccountedFor == NetSpec => []AcceptedPbufsAccountedFor
<1>1. NetInv => AcceptedPbufsAccountedFor
  BY DEF NetInv, ReadingInv
<1> QED BY <1>1, NetInvariant, PTL

\* Refusing a pbuf for lack of room and taking it when lwIP offers it again keeps
\* the order of delivery, also across a disconnect and the next connection.
THEOREM PacketsStayInOrder == NetSpec => []PacketsInOrder
<1>1. NetInv => PacketsInOrder
  BY DEF NetInv, OrderInv
<1> QED BY <1>1, NetInvariant, PTL

\* The length netReadPacket measures with net_GetReadLen is that of the packet it
\* reads later, with interrupts enqueueing in between: no pbuf is truncated.
THEOREM PacketsComeWhole == NetSpec => []PacketsAreWhole
<1>1. NetInv => PacketsAreWhole
  BY DEF NetInv, ReadingInv, ReadInv, PacketsAreWhole
<1> QED BY <1>1, NetInvariant, PTL

\* Outside net_Disconnect the handle is a live connection that calls back with
\* the instance, and isConnected tells the truth about it.
THEOREM HandleStaysLive == NetSpec => []HandleIsLive
<1>1. NetInv => HandleIsLive
  BY DEF NetInv, ConnInv, ConnectionIsWhole, HandleIsLive, Live
<1> QED BY <1>1, NetInvariant, PTL

\* A connection that tcp_close could not close never calls back again.
THEOREM StrayConnectionsStayMute == NetSpec => []StrayConnectionsAreMute
<1>1. NetInv => StrayConnectionsAreMute
  BY DEF NetInv, ConnInv, OthersAreMute, StrayConnectionsAreMute
<1> QED BY <1>1, NetInvariant, PTL

\* lwIP calls back without an instance, or is given a freed control block, only
\* inside the window net_Disconnect opens between its statements.
THEOREM FaultsAreConfined == NetSpec => []FaultsOnlyWhileDetaching
<1>1. NetInv => FaultsOnlyWhileDetaching
  BY DEF NetInv, ConnInv
<1> QED BY <1>1, NetInvariant, PTL

\* net_ReceiveCb is called without an instance, and loses its pbuf, only between
\* net_Disconnect's tcp_arg and its tcp_recv.
LEMMA LeakStep ==
    ASSUME NetInv, [NetNext]_netVars, leaked' # leaked
    PROVE  call \in {"disc_sent", "disc_recv"}
<1>0. NetTypeOK /\ ConnInv
  BY DEF NetInv
<1>1. ASSUME NEW c \in Conn, NEW p, net_ReceiveCb(c, p), "recv" \in pcb[c].cb,
             pcb[c].st = "established"
      PROVE  call \in {"disc_sent", "disc_recv"}
  <2>1. ~pcb[c].arg
    BY <1>1 DEF net_ReceiveCb
  <2>2. call \in DisconnectStage /\ "recv" \in StillSet[call]
    BY <1>0, <1>1, <2>1, CallbackOfHandle DEF Live
  <2> QED BY <2>2 DEF StillSet, DisconnectStage, DetachStage
<1>2. CASE Interrupt
  <2> PICK c \in Conn :
          \/ LwipConnected(c) \/ LwipError(c) \/ LwipReceive(c) \/ LwipRedeliver(c)
          \/ LwipGivesUp(c) \/ LwipFin(c) \/ LwipPoll(c) \/ LwipSent(c)
    BY <1>2 DEF Interrupt
  <2>1. CASE LwipReceive(c)
    BY <1>1, <2>1 DEF LwipReceive, histVars
  <2>2. CASE LwipRedeliver(c)
    BY <1>1, <2>2 DEF LwipRedeliver, histVars
  <2> QED
    BY <2>1, <2>2 DEF LwipConnected, LwipError, LwipGivesUp, LwipFin, LwipPoll, LwipSent,
                      netVars, histVars
<1> QED
  BY <1>2 DEF NetNext, Halted, netVars, ClientStep, net_ConnectOk, net_ConnectFails,
       net_Disconnect, netReadPacket, netWritePacket, ClearNotice, FreeBuffer, CallStep,
       DisconnectDetach, DisconnectClose, DisconnectForget, ReadMalloc, ReadDequeue,
       ReadRecved, ReadFree, WriteOutput, histVars

\* No step outside that window forgets a pbuf.
THEOREM LeaksAreConfined == NetSpec => PbufsLeakOnlyWhileDetaching
<1>1. NetInv /\ [NetNext]_netVars =>
        [leaked' # leaked => call \in {"disc_sent", "disc_recv"}]_netVars
  BY LeakStep
<1> QED
  BY <1>1, NetInvariant, PTL DEF NetSpec, PbufsLeakOnlyWhileDetaching

-----------------------------------------------------------------------------
(* Part two: main() over net_client.                                       *)

\* Where main() may stand in each state of its machine.
LoopHead == {"top", "clear", "state"}
Running == {"run", "decode", "timed", "run_wrote", "run_failed", "uptime"}
LocationIn ==
    [STATE_WAIT_IP   |-> LoopHead \cup {"net_ok", "net_failed"},
     STATE_WAIT_NET  |-> LoopHead \cup {"mqtt_connect", "mqtt_sent", "mqtt_failed"},
     STATE_WAIT_MQTT |-> LoopHead \cup Running,
     STATE_RUN_MQTT  |-> LoopHead \cup Running \cup {"announce"},
     STATE_RECOVERY  |-> LoopHead \cup {"uptime", "rec_net", "rec_delay"},
     STATE_DELAY     |-> LoopHead]

\* net_Disconnect is called in recovery only, and main() waits for it there.
Placed ==
    /\ pc \in LocationIn[runState]
    /\ call \in DisconnectStage => pc = "rec_delay"

\* From the end of net_Disconnect to the next net_Connect there is no handle.
NoHandle ==
    \/ runState \in {"STATE_WAIT_IP", "STATE_DELAY"} /\ pc # "net_ok"
    \/ pc = "rec_delay" /\ call \notin DisconnectStage
    => hNet = NoPcb

\* From net_Connect to recovery a missing handle has been reported.
LossReported ==
    \/ runState \in {"STATE_WAIT_NET", "STATE_WAIT_MQTT", "STATE_RUN_MQTT"}
    \/ pc = "net_ok"
    => (hNet = NoPcb => netWasDisconnected)

\* The notice net_Disconnect itself gives has been cleared before the delay ends.
NoticeCleared ==
    \/ runState = "STATE_WAIT_IP" /\ pc # "net_ok"
    \/ runState = "STATE_DELAY" /\ pc = "state"
    => ~netWasDisconnected

\* From umqtt_Disconnect to the next umqtt_Connect nothing is written, so that
\* `written' is still the result of the DISCONNECT.
SessionEnded ==
    \/ runState \in {"STATE_WAIT_IP", "STATE_DELAY"}
    \/ runState = "STATE_WAIT_NET" /\ pc \in LoopHead \cup {"mqtt_connect"}
    \/ pc \in {"rec_net", "rec_delay"}
    => (written => umqtt = "disconnected")

\* The types of main()'s own variables.
AppTypeOK ==
    /\ runState \in RunState /\ pc \in Location
    /\ umqtt \in {"disconnected", "pending", "connected"}
    /\ todo \in 0..Announcements
    /\ errorTimer \in 0..ErrorTicks /\ upTimeReportTimer \in 0..ReportTicks
    /\ connectOn \in Conn \cup {NoPcb} /\ connackOn \in Conn \cup {NoPcb}

\* main() and net_client.c together.
Coordinated ==
    /\ Placed
    /\ NoHandle
    /\ LossReported
    /\ NoticeIsNotStale
    /\ NoticeCleared
    /\ SessionEnded

\* The inductive invariant: that of net_client, and where main and net_client meet.
AppInv ==
    /\ NetInv
    /\ AppTypeOK
    /\ Coordinated

-----------------------------------------------------------------------------
(* main() is one of the applications NetClient allows.                      *)

\* Every step between two calls is a call NetClient allows, or none.
LEMMA MainStepIsClientStep ==
    ASSUME NoHandle, MainStep
    PROVE  ClientStep \/ UNCHANGED netVars
<1>0. call = "idle"
  BY DEF MainStep
<1>1. CASE WaitIp
  <2>1. hNet = NoPcb
    BY <1>1 DEF WaitIp, InState, NoHandle
  <2> QED BY <1>1, <2>1 DEF WaitIp, ClientStep
<1>2. CASE ClearDisconnected
  BY <1>0, <1>2 DEF ClearDisconnected, ClearNotice, ClientStep
<1>3. CASE umqtt_DecodePacket
  BY <1>0, <1>3 DEF umqtt_DecodePacket, FreeBuffer, ClientStep
<1>4. CASE umqtt_Run \/ umqtt_Connect \/ umqtt_Disconnect \/ RecoverNet
  BY <1>4 DEF umqtt_Run, umqtt_Connect, umqtt_Disconnect, RecoverNet, ClientStep
<1>5. CASE Announce \/ umqtt_Timed \/ ReportUptime
  BY <1>5 DEF Announce, umqtt_Timed, ReportUptime, umqtt_Send, ClientStep
<1>6. CASE \/ CheckDisconnected \/ NextState \/ WaitNet \/ ConnectSent \/ WaitMqtt
           \/ RunResult \/ StartDelay \/ Delay
  BY <1>6 DEF CheckDisconnected, NextState, WaitNet, ConnectSent, WaitMqtt, RunResult,
              StartDelay, Delay
<1> QED
  BY <1>1, <1>2, <1>3, <1>4, <1>5, <1>6 DEF MainStep

\* Every step of main's program is a step that net_client allows, or none of it.
LEMMA NextIsNetNext ==
    ASSUME NoHandle, [Next]_vars
    PROVE  [NetNext]_netVars
<1>1. CASE Main
  BY <1>1, MainStepIsClientStep DEF Main, NetNext
<1>2. CASE fault = "none" /\ Interrupt /\ UNCHANGED appVars
  BY <1>2 DEF NetNext
<1>3. CASE fault = "none" /\ SysTick
  BY <1>3 DEF SysTick
<1>4. CASE Halted /\ UNCHANGED appVars
  BY <1>4 DEF NetNext
<1>5. CASE UNCHANGED vars
  BY <1>5 DEF vars
<1> QED BY <1>1, <1>2, <1>3, <1>4, <1>5 DEF Next

-----------------------------------------------------------------------------
(* What the other context does to what main() relies on.                    *)

\* An interrupt changes the instance only if it has a connection, and then
\* brings it up or forgets it and says so.
LEMMA InterruptInst ==
    ASSUME NetInv, Interrupt
    PROVE  /\ UNCHANGED <<call, written>>
           /\ \/ UNCHANGED <<hNet, netWasDisconnected>>
              \/ hNet # NoPcb /\ hNet' = NoPcb /\ netWasDisconnected' = TRUE
<1>0. NetTypeOK /\ ConnInv /\ netWasDisconnected \in BOOLEAN
  BY DEF NetInv, NetTypeOK
<1>1. UNCHANGED <<call, written>>
  BY <1>0, InterruptEffect DEF callVars
<1> PICK c \in Conn :
        \/ LwipConnected(c) \/ LwipError(c) \/ LwipReceive(c) \/ LwipRedeliver(c)
        \/ LwipGivesUp(c) \/ LwipFin(c) \/ LwipPoll(c) \/ LwipSent(c)
  BY DEF Interrupt
<1> DEFINE Goal == \/ UNCHANGED <<hNet, netWasDisconnected>>
                   \/ hNet # NoPcb /\ hNet' = NoPcb /\ netWasDisconnected' = TRUE
<1> SUFFICES Goal
  BY <1>1
<1>2. ASSUME NEW p, net_ErrorCb(TRUE, p), pcb[c].arg PROVE Goal
  <2>1. hNet # NoPcb
    BY <1>0, <1>2, CallbackOfInstance
  <2> QED BY <1>2, <2>1 DEF net_ErrorCb, Forget, net_EventCb, instVars
<1>3. CASE LwipConnected(c)
  <2>1. netWasDisconnected' = netWasDisconnected /\ hNet' = hNet
    BY <1>0, <1>3 DEF LwipConnected, net_ConnectedCb, net_EventCb, NullInstance, instVars
  <2> QED BY <2>1
<1>4. CASE LwipError(c)
  <2>1. CASE "err" \in pcb[c].cb /\ pcb[c].arg
    <3>1. net_ErrorCb(TRUE, [pcb EXCEPT ![c].st = "closed"])
      BY <1>4, <2>1 DEF LwipError, net_ErrorCb
    <3> QED BY <1>2, <2>1, <3>1
  <2>2. CASE ~("err" \in pcb[c].cb /\ pcb[c].arg)
    BY <1>4, <2>2 DEF LwipError, net_ErrorCb, NullInstance, instVars
  <2> QED BY <2>1, <2>2
<1>5. CASE LwipFin(c)
  BY <1>2, <1>5 DEF LwipFin, instVars
<1>6. CASE LwipReceive(c) \/ LwipRedeliver(c) \/ LwipGivesUp(c) \/ LwipSent(c)
  BY <1>6 DEF LwipReceive, LwipRedeliver, LwipGivesUp, net_ReceiveCb, LwipSent, netVars, instVars
<1>7. CASE LwipPoll(c)
  <2>1. netWasDisconnected' = netWasDisconnected /\ hNet' = hNet
    BY <1>0, <1>7 DEF LwipPoll, net_EventCb, NullInstance, instVars
  <2> QED BY <2>1
<1> QED
  BY <1>3, <1>4, <1>5, <1>6, <1>7

\* Outside net_Disconnect a call leaves the instance alone; net_Disconnect ends
\* without a handle.
LEMMA CallStepInst ==
    ASSUME NetInv, CallStep
    PROVE  /\ written' = written
           /\ call \notin DisconnectStage =>
                /\ call' \notin DisconnectStage
                /\ UNCHANGED <<hNet, netWasDisconnected>>
           /\ call \in DisconnectStage =>
                /\ hNet' \in {hNet, NoPcb}
                /\ netWasDisconnected' = netWasDisconnected \/ hNet' = NoPcb
                /\ call' \notin DisconnectStage => hNet' = NoPcb
<1>0. NetTypeOK /\ ConnInv
  BY DEF NetInv
<1>1. CASE DisconnectDetach \/ DisconnectClose
  <2>1. call' \in DisconnectStage /\ call \in DisconnectStage
    BY <1>1 DEF DisconnectDetach, DisconnectClose, Then, NextStage, DisconnectStage,
                DetachStage
  <2> QED
    BY <1>1, <2>1 DEF DisconnectDetach, DisconnectClose, instVars, callVars
<1>2. CASE DisconnectForget
  <2>1. call \in DisconnectStage
    BY <1>2 DEF DisconnectForget, DisconnectStage
  <2>2. call = "disc_event" => hNet = NoPcb
    BY <1>0, <2>1 DEF ConnInv, ConnectionIsDetached
  <2>3. call # "disc_event" => call' \in DisconnectStage
    BY <1>2 DEF DisconnectForget, NextStage, DisconnectStage
  <2> QED
    BY <1>2, <2>1, <2>2, <2>3 DEF DisconnectForget, callVars
<1>3. CASE ReadMalloc \/ ReadDequeue \/ ReadRecved \/ ReadFree \/ WriteOutput
  <2>1. call \notin DisconnectStage /\ call' \notin DisconnectStage
    BY <1>3 DEF ReadMalloc, ReadDequeue, ReadRecved, ReadFree, WriteOutput, Then,
                DisconnectStage, DetachStage
  <2> QED
    BY <1>3, <2>1 DEF ReadMalloc, ReadDequeue, ReadRecved, ReadFree, WriteOutput,
                      instVars, callVars
<1> QED
  BY <1>1, <1>2, <1>3 DEF CallStep

\* A callback of lwIP leaves the agreement between main and net_client intact.
LEMMA InterruptCoordinated ==
    ASSUME NetInv, Coordinated, Interrupt, UNCHANGED appVars
    PROVE  Coordinated'
<1>1. UNCHANGED <<runState, pc, umqtt>>
  BY DEF appVars
<1>2. CASE UNCHANGED <<hNet, netWasDisconnected>>
  BY <1>1, <1>2, InterruptInst DEF Coordinated, Placed, NoHandle, LossReported,
       NoticeIsNotStale, NoticeCleared, SessionEnded
<1>3. CASE hNet # NoPcb /\ hNet' = NoPcb /\ netWasDisconnected' = TRUE
  <2>1. ~(\/ runState = "STATE_WAIT_IP" /\ pc # "net_ok"
          \/ runState = "STATE_DELAY" /\ pc = "state")
    BY <1>3 DEF Coordinated, NoHandle
  <2> QED
    BY <1>1, <1>3, <2>1, InterruptInst DEF Coordinated, Placed, NoHandle, LossReported,
         NoticeIsNotStale, NoticeCleared, SessionEnded
<1> QED BY <1>2, <1>3, InterruptInst

\* So does a step of a call of net_client that main has made.
LEMMA CallStepCoordinated ==
    ASSUME NetInv, AppTypeOK, Coordinated, CallStep, UNCHANGED appVars
    PROVE  Coordinated'
<1>1. UNCHANGED <<runState, pc, umqtt>>
  BY DEF appVars
<1>2. CASE call \notin DisconnectStage
  BY <1>1, <1>2, CallStepInst DEF Coordinated, Placed, NoHandle, LossReported,
       NoticeIsNotStale, NoticeCleared, SessionEnded
<1>3. CASE call \in DisconnectStage
  <2>1. pc = "rec_delay" /\ runState = "STATE_RECOVERY"
    BY <1>3 DEF Coordinated, Placed, LocationIn, LoopHead, Running, AppTypeOK, RunState
  <2> QED
    BY <1>1, <1>3, <2>1, CallStepInst DEF Coordinated, Placed, NoHandle, LossReported,
         NoticeIsNotStale, NoticeCleared, SessionEnded, LoopHead
<1> QED BY <1>2, <1>3

-----------------------------------------------------------------------------
(* The steps of main().                                                     *)

\* The transport callbacks leave the handle and the notice alone.
LEMMA TransportEffect ==
    ASSUME netWritePacket \/ netReadPacket
    PROVE  UNCHANGED <<hNet, netWasDisconnected>> /\ call' \notin DisconnectStage
  BY DEF netWritePacket, netReadPacket, instVars, DisconnectStage, DetachStage

\* main() between two calls leaves the handle alone, except to connect, and the
\* notice, except to clear it.
LEMMA MainStepAppInv ==
    ASSUME NetInv, AppTypeOK, Coordinated, MainStep
    PROVE  AppTypeOK' /\ Coordinated'
<1>0. /\ call = "idle" /\ call \notin DisconnectStage
      /\ Placed /\ NoHandle /\ LossReported /\ NoticeIsNotStale /\ NoticeCleared
      /\ SessionEnded
  BY DEF MainStep, DisconnectStage, DetachStage, Coordinated
<1> USE <1>0 DEF Coordinated, AppTypeOK, RunState, Location, Placed, NoHandle, LossReported,
                 NoticeIsNotStale, NoticeCleared, SessionEnded, LocationIn, LoopHead, Running,
                 timers, mqttVars, netVars, instVars, callVars, InState
<1>1. CASE CheckDisconnected
  BY <1>1 DEF CheckDisconnected
<1>2. CASE ClearDisconnected
  BY <1>2 DEF ClearDisconnected
<1>3. CASE NextState
  BY <1>3 DEF NextState
<1>4. CASE WaitNet
  BY <1>4 DEF WaitNet
<1>5. CASE ConnectSent
  BY <1>5 DEF ConnectSent
<1>6. CASE RunResult
  BY <1>6 DEF RunResult
<1>7. CASE StartDelay
  BY <1>7, TicksAssumption DEF StartDelay
<1>8. CASE Delay
  BY <1>8 DEF Delay
<1>9. CASE WaitMqtt
  BY <1>9 DEF WaitMqtt, Announcements
<1>10. CASE WaitIp
  BY <1>10, ConnIsNat DEF WaitIp, net_ConnectOk, net_ConnectFails
<1>11. CASE umqtt_Connect
  <2>1. hNet \in Conn \cup {NoPcb}
    BY DEF NetInv, NetTypeOK
  <2> QED BY <1>11, <2>1, TransportEffect DEF umqtt_Connect
<1>12. CASE Announce
  <2>1. todo' \in 0..Announcements
    BY <1>12 DEF Announce, MoreToAnnounce, Announcements
  <2>2. UNCHANGED <<hNet, netWasDisconnected>> /\ call' \notin DisconnectStage
    BY <1>12, TransportEffect DEF Announce, umqtt_Send
  <2> QED BY <1>12, <2>1, <2>2 DEF Announce
<1>13. CASE umqtt_Run
  BY <1>13, TransportEffect DEF umqtt_Run
<1>14. CASE umqtt_DecodePacket
  <2>1. connackOn' \in Conn \cup {NoPcb}
    <3>1. buf # NULL => buf.conn \in Conn
      BY PbufAssumption DEF NetInv, NetTypeOK
    <3> QED BY <1>14, <3>1 DEF umqtt_DecodePacket
  <2> QED BY <1>14, <2>1 DEF umqtt_DecodePacket
<1>15. CASE umqtt_Timed
  <2>1. UNCHANGED <<hNet, netWasDisconnected>> /\ call' \notin DisconnectStage
    BY <1>15, TransportEffect DEF umqtt_Timed
  <2> QED BY <1>15, <2>1 DEF umqtt_Timed
<1>16. CASE ReportUptime
  <2>1. UNCHANGED <<hNet, netWasDisconnected>> /\ call' \notin DisconnectStage
    BY <1>16, TransportEffect DEF ReportUptime, umqtt_Send
  <2> QED BY <1>16, <2>1, TicksAssumption DEF ReportUptime
<1>17. CASE umqtt_Disconnect
  BY <1>17, TransportEffect DEF umqtt_Disconnect
<1>18. CASE RecoverNet
  <2>1. /\ UNCHANGED <<hNet, netWasDisconnected, written>> /\ call' \in DisconnectStage
    BY <1>18 DEF RecoverNet, net_Disconnect, Then, DisconnectStage, DetachStage
  <2> QED BY <1>18, <2>1 DEF RecoverNet
<1> QED
  BY <1>1, <1>2, <1>3, <1>4, <1>5, <1>6, <1>7, <1>8, <1>9, <1>10, <1>11, <1>12, <1>13,
     <1>14, <1>15, <1>16, <1>17, <1>18 DEF MainStep

\* The invariant holds when main starts.
LEMMA AppInvInit == Init => AppInv
<1> SUFFICES ASSUME Init PROVE AppInv
  OBVIOUS
<1>1. NetInv
  BY NetInvInit DEF Init
<1>2. AppTypeOK
  BY TicksAssumption DEF Init, AppTypeOK, RunState, Location, Announcements
<1>3. hNet = NoPcb /\ ~netWasDisconnected /\ call \notin DisconnectStage
  BY DEF Init, NetInit, DisconnectStage, DetachStage
<1>4. Coordinated
  BY <1>3 DEF Init, Coordinated, Placed, NoHandle, LossReported, NoticeIsNotStale,
              NoticeCleared, SessionEnded, LocationIn, LoopHead
<1> QED BY <1>1, <1>2, <1>4 DEF AppInv

\* Every step of main, of a call or of lwIP keeps the invariant.
LEMMA AppInvStep == AppInv /\ [Next]_vars => AppInv'
<1> SUFFICES ASSUME AppInv, [Next]_vars PROVE AppInv'
  OBVIOUS
<1>0. NetInv /\ AppTypeOK /\ Coordinated /\ NoHandle
  BY DEF AppInv, Coordinated
<1>1. NetInv'
  BY <1>0, NextIsNetNext, NetInvStep
<1>2. CASE MainStep
  BY <1>0, <1>1, <1>2, MainStepAppInv DEF AppInv
<1>3. CASE CallStep /\ UNCHANGED appVars
  BY <1>0, <1>1, <1>3, CallStepCoordinated DEF AppInv, AppTypeOK, appVars
<1>4. CASE Interrupt /\ UNCHANGED appVars
  BY <1>0, <1>1, <1>4, InterruptCoordinated DEF AppInv, AppTypeOK, appVars
<1>5. CASE SysTick
  <2>1. errorTimer' \in 0..ErrorTicks /\ upTimeReportTimer' \in 0..ReportTicks
    BY <1>0, <1>5, TicksAssumption DEF SysTick, AppTypeOK
  <2>2. UNCHANGED <<runState, pc, umqtt, todo, connectOn, connackOn>>
    BY <1>5 DEF SysTick, mqttVars
  <2>3. UNCHANGED <<call, hNet, netWasDisconnected, written>>
    BY <1>5 DEF SysTick, netVars, instVars, callVars
  <2> QED
    BY <1>0, <1>1, <2>1, <2>2, <2>3 DEF AppInv, AppTypeOK, Coordinated, Placed, NoHandle,
         LossReported, NoticeIsNotStale, NoticeCleared, SessionEnded
<1>6. CASE UNCHANGED vars
  <2>1. UNCHANGED appVars /\ UNCHANGED <<call, hNet, netWasDisconnected, written>>
    BY <1>6 DEF vars, netVars, instVars, callVars
  <2> QED
    BY <1>0, <1>1, <2>1 DEF AppInv, AppTypeOK, appVars, Coordinated, Placed, NoHandle,
         LossReported, NoticeIsNotStale, NoticeCleared, SessionEnded
<1>7. Halted /\ UNCHANGED appVars => UNCHANGED vars
  BY DEF Halted, vars
<1> QED BY <1>2, <1>3, <1>4, <1>5, <1>6, <1>7 DEF Next, Main

\* main(), the call it is in, net_client.c and lwIP agree at every step.
THEOREM AppInvariant == Spec => []AppInv
<1> QED BY AppInvInit, AppInvStep, PTL DEF Spec

\* The state machine of main() and all it drives stay within their types.
THEOREM McuAppTypes == Spec => []TypeOK
<1>1. AppInv => TypeOK
  BY DEF AppInv, NetInv, AppTypeOK, TypeOK
<1> QED BY <1>1, AppInvariant, PTL

\* mcu_test.c is one of the programs module NetClient allows, so that every
\* theorem about net_client.c holds in it: it makes one call at a time and opens
\* a connection only when the last one is gone.
THEOREM MainUsesNetClientProperly == Spec => MainIsANetClient
<1>1. Init => NetInit
  BY DEF Init
<1>2. AppInv /\ [Next]_vars => [NetNext]_netVars
  BY NextIsNetNext DEF AppInv, Coordinated
<1> QED
  BY <1>1, <1>2, AppInvariant, PTL DEF Spec, MainIsANetClient, NetSpec

\* What the theorems about net_client.c say of handles, callbacks and pbufs is so
\* when main() drives it.
COROLLARY NetClientInMain ==
    Spec => [](/\ AcceptedPbufsAccountedFor /\ PacketsInOrder /\ PacketsAreWhole
               /\ HandleIsLive /\ StrayConnectionsAreMute /\ FaultsOnlyWhileDetaching)
<1> QED
  BY MainUsesNetClientProperly, PbufsAreAccountedFor, PacketsStayInOrder, PacketsComeWhole,
     HandleStaysLive, StrayConnectionsStayMute, FaultsAreConfined, PTL DEF MainIsANetClient

\* Whenever an interrupt drops the connection, netWasDisconnected is up when
\* main() next looks at it.
THEOREM LossesAreNoticed == Spec => []LossIsNoticed
<1>1. AppInv => LossIsNoticed
  BY DEF AppInv, Coordinated, LossReported, LossIsNoticed
<1> QED BY <1>1, AppInvariant, PTL

\* netWasDisconnected never outlives the connection it is about: the notice that
\* net_Disconnect gives is cleared before net_Connect can be called.
THEOREM NoticesAreNotStale == Spec => []NoticeIsNotStale
<1>1. AppInv => NoticeIsNotStale
  BY DEF AppInv, Coordinated
<1> QED BY <1>1, AppInvariant, PTL

\* In STATE_WAIT_IP and STATE_DELAY there is no connection, and nothing that lwIP
\* still has calls back.
THEOREM RecoveryTakesDown == Spec => []DownMeansDown
<1>1. AppInv => DownMeansDown
  <2> SUFFICES ASSUME AppInv, AtLoopHead, runState \in {"STATE_WAIT_IP", "STATE_DELAY"}
               PROVE  /\ hNet = NoPcb /\ ~isConnected
                      /\ \A c \in Conn : Live(c) => pcb[c].cb = {}
    BY DEF DownMeansDown
  <2>1. hNet = NoPcb
    BY DEF AtLoopHead, AppInv, Coordinated, NoHandle
  <2>2. call \notin DisconnectStage
    BY DEF AtLoopHead, DisconnectStage, DetachStage
  <2>3. ~isConnected
    BY <2>1, <2>2 DEF AppInv, NetInv, ConnInv, ConnectionIsWhole
  <2>4. \A c \in Conn : Live(c) => pcb[c].cb = {}
    BY <2>1, ConnIsNat DEF AppInv, NetInv, ConnInv, OthersAreMute
  <2> QED BY <2>1, <2>3, <2>4
<1> QED BY <1>1, AppInvariant, PTL

\* Every way to the next umqtt_Connect leads through an umqtt_Disconnect with no
\* write after it: umqtt refuses only if that one could not be written.
THEOREM ConnectsAreNotRefused == Spec => []ConnectIsNeverRefused
<1>1. AppInv => ConnectIsNeverRefused
  BY DEF AppInv, AppTypeOK, RunState, Coordinated, Placed, LocationIn, LoopHead, Running,
         SessionEnded, ConnectIsNeverRefused
<1> QED BY <1>1, AppInvariant, PTL
=============================================================================
