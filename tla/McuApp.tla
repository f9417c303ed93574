------------------------------- MODULE McuApp -------------------------------
(***************************************************************************)
(* The program mcu_test: the state machine of main() over NetClient, with  *)
(* the interrupts of lwIP and SysTick arriving between any two of its      *)
(* steps.                                                                  *)
(*                                                                         *)
(* umqtt is external (a submodule).  It is modelled from how main uses it  *)
(* and from what the unit tests expect of it: its connection status, the   *)
(* packets it reads and writes through the transport callbacks, and the    *)
(* results main tells apart (OK or not).  The two SwTimer_t of main are    *)
(* the ticks left to run, which is what module SwTimer shows SwTimer_      *)
(* IsTimedOut to report.                                                   *)
(***************************************************************************)
EXTENDS NetClient

CONSTANTS
    ErrorTicks,     \* ticks of the 3000 ms recovery delay
    ReportTicks     \* ticks of the 5000 ms between uptime reports

ASSUME TicksAssumption == ErrorTicks \in Nat /\ ReportTicks \in Nat
ASSUME KindAssumption == {"connack", "other", "bad"} \subseteq Kind

RunState == {"STATE_WAIT_IP", "STATE_WAIT_NET", "STATE_WAIT_MQTT",
             "STATE_RUN_MQTT", "STATE_RECOVERY", "STATE_DELAY"}

\* Where main() stands in its loop; inside a transport call, `call' says more.
Location == {"top", "clear", "state", "net_ok", "net_failed", "mqtt_connect",
             "mqtt_sent", "mqtt_failed", "announce", "run", "decode", "timed",
             "run_wrote", "run_failed", "uptime", "rec_net", "rec_delay"}

\* One Subscribe and three Publish when the MQTT connection is up.
Announcements == 4

VARIABLES
    runState,
    pc,
    umqtt,          \* external: umqtt_GetConnectedStatus
    todo,           \* announcements still to send
    errorTimer, upTimeReportTimer,
    connectOn,      \* history: connection the last CONNECT was written to
    connackOn       \* history: connection the CONNACK came from

appVars == <<runState, pc, umqtt, todo, errorTimer, upTimeReportTimer,
             connectOn, connackOn>>
vars == <<netVars, appVars>>

\* main() up to its loop.
Init ==
    /\ NetInit
    /\ runState = "STATE_WAIT_IP" /\ pc = "top"
    /\ umqtt = "disconnected" /\ todo = 0
    /\ errorTimer = 0 /\ upTimeReportTimer = ReportTicks
    /\ connectOn = NoPcb /\ connackOn = NoPcb

\* The parts of the state a step of main() leaves alone.
timers == <<errorTimer, upTimeReportTimer>>
mqttVars == <<umqtt, connectOn, connackOn>>

-----------------------------------------------------------------------------
(* The head of the loop.                                                   *)

\* if (netWasDisconnected)
CheckDisconnected ==
    /\ pc = "top"
    /\ pc' = IF netWasDisconnected THEN "clear" ELSE "state"
    /\ UNCHANGED <<netVars, runState, mqttVars, todo, timers>>

\* (Bug: the notice is dropped while waiting for the connection.)
ClearNoticeInWaitNet ==
    /\ pc = "clear"
    /\ pc' = "state"
    /\ netWasDisconnected' = FALSE
    /\ runState' = IF runState \in {"STATE_DELAY", "STATE_WAIT_NET"}
                   THEN runState ELSE "STATE_RECOVERY"
    /\ UNCHANGED <<queueVars, hNet, isConnected, call, callVars, lwipVars, fault,
                   histVars, mqttVars, todo, timers>>

\* An interrupt may have come since the flag was read.
ClearDisconnected ==
    /\ pc = "clear"
    /\ pc' = "state"
    /\ netWasDisconnected' = FALSE
    /\ runState' = IF runState = "STATE_DELAY" THEN runState ELSE "STATE_RECOVERY"
    /\ UNCHANGED <<queueVars, hNet, isConnected, call, callVars, lwipVars, fault,
                   histVars, mqttVars, todo, timers>>

InState(s) == pc = "state" /\ runState = s

\* STATE_WAIT_IP: no address yet, or net_Connect.
WaitIp ==
    /\ InState("STATE_WAIT_IP")
    /\ \/ pc' = "top" /\ UNCHANGED netVars
       \/ pc' = "net_ok" /\ \E c \in Conn : net_ConnectOk(c)
       \/ pc' = "net_failed" /\ net_ConnectFails
    /\ UNCHANGED <<runState, mqttVars, todo, timers>>

\* The result of net_Connect or of umqtt_Connect becomes the next state.
NextState ==
    /\ pc \in {"net_ok", "net_failed", "mqtt_failed"}
    /\ runState' = IF pc = "net_ok" THEN "STATE_WAIT_NET" ELSE "STATE_RECOVERY"
    /\ pc' = "top"
    /\ UNCHANGED <<netVars, mqttVars, todo, timers>>

\* (Bug: connecting again while not yet connected.)
WaitNetRetrying ==
    /\ InState("STATE_WAIT_NET")
    /\ \/ net_IsConnected /\ pc' = "mqtt_connect" /\ UNCHANGED netVars
       \/ ~net_IsConnected /\ pc' = "top" /\ \E c \in Conn : net_ConnectOk(c)
    /\ UNCHANGED <<runState, mqttVars, todo, timers>>

\* STATE_WAIT_NET: net_IsConnected.
WaitNet ==
    /\ InState("STATE_WAIT_NET")
    /\ pc' = IF net_IsConnected THEN "mqtt_connect" ELSE "top"
    /\ UNCHANGED <<netVars, runState, mqttVars, todo, timers>>

\* umqtt_Connect refuses unless it is disconnected, may find no memory, and
\* writes a CONNECT packet.
umqtt_Connect ==
    /\ pc = "mqtt_connect"
    /\ \/ pc' = "mqtt_failed" /\ UNCHANGED <<netVars, connectOn>>
       \/ /\ umqtt = "disconnected"
          /\ netWritePacket
          /\ connectOn' = hNet
          /\ pc' = "mqtt_sent"
    /\ UNCHANGED <<runState, umqtt, connackOn, todo, timers>>

\* It is pending once the packet is written.
ConnectSent ==
    /\ pc = "mqtt_sent"
    /\ umqtt' = IF written THEN "pending" ELSE umqtt
    /\ runState' = IF written THEN "STATE_WAIT_MQTT" ELSE "STATE_RECOVERY"
    /\ pc' = "top"
    /\ UNCHANGED <<netVars, connectOn, connackOn, todo, timers>>

\* STATE_WAIT_MQTT: umqtt_GetConnectedStatus.
WaitMqtt ==
    /\ InState("STATE_WAIT_MQTT")
    /\ IF umqtt = "connected"
       THEN runState' = "STATE_RUN_MQTT" /\ todo' = Announcements /\ pc' = "announce"
       ELSE pc' = "run" /\ UNCHANGED <<runState, todo>>
    /\ UNCHANGED <<netVars, mqttVars, timers>>

\* umqtt_Subscribe and umqtt_Publish write a packet or find no memory for it;
\* their results are ignored.
umqtt_Send == netWritePacket \/ UNCHANGED netVars

\* (Bug: one too many.)
MoreToAnnounceOffByOne == todo >= 0
MoreToAnnounce == todo > 0

Announce ==
    /\ pc = "announce"
    /\ IF MoreToAnnounce
       THEN umqtt_Send /\ todo' = todo - 1 /\ pc' = pc
       ELSE UNCHANGED netVars /\ todo' = todo /\ pc' = "run"
    /\ UNCHANGED <<runState, mqttVars, timers>>

-----------------------------------------------------------------------------
(* STATE_RUN_MQTT, also entered by fall-through from STATE_WAIT_MQTT.       *)

\* umqtt_Run first reads a packet.
umqtt_Run ==
    /\ pc = "run" \/ InState("STATE_RUN_MQTT")
    /\ netReadPacket
    /\ pc' = "decode"
    /\ UNCHANGED <<runState, mqttVars, todo, timers>>

\* It decodes the packet and frees the buffer.  A CONNACK completes a pending
\* connect; a packet it cannot make sense of is an error, and so may be a
\* length without a buffer.
umqtt_DecodePacket ==
    /\ pc = "decode"
    /\ ret' = 0 /\ buf' = NULL
    /\ LET completes == buf # NULL /\ buf.kind = "connack" /\ umqtt = "pending"
       IN  /\ umqtt' = IF completes THEN "connected" ELSE umqtt
           /\ connackOn' = IF completes THEN buf.conn ELSE connackOn
    /\ \/ pc' = "timed" /\ (buf # NULL => buf.kind # "bad")
       \/ pc' = "run_failed" /\ IF buf = NULL THEN ret > 0 ELSE buf.kind = "bad"
    /\ UNCHANGED <<queueVars, instVars, call, len, pb, written, lwipVars, fault,
                   histVars, runState, connectOn, todo, timers>>

\* Then it does what time demands: nothing, a ping or a retransmission, or it
\* gives up on an answer that has not come; a pending connect is then off.
umqtt_Timed ==
    /\ pc = "timed"
    /\ \/ pc' = "uptime" /\ UNCHANGED <<netVars, umqtt>>
       \/ pc' = "run_wrote" /\ netWritePacket /\ UNCHANGED umqtt
       \/ /\ pc' = "run_failed"
          /\ umqtt' = IF umqtt = "pending" THEN "disconnected" ELSE umqtt
          /\ UNCHANGED netVars
    /\ UNCHANGED <<runState, connectOn, connackOn, todo, timers>>

\* A write that fails is an error of umqtt_Run; an error means recovery.
RunResult ==
    /\ pc \in {"run_wrote", "run_failed"}
    /\ runState' = IF pc = "run_wrote" /\ written THEN runState ELSE "STATE_RECOVERY"
    /\ pc' = "uptime"
    /\ UNCHANGED <<netVars, mqttVars, todo, timers>>

\* The uptime report, when its timer has run out.
ReportUptime ==
    /\ pc = "uptime"
    /\ IF upTimeReportTimer = 0
       THEN upTimeReportTimer' = ReportTicks /\ umqtt_Send
       ELSE UNCHANGED <<netVars, upTimeReportTimer>>
    /\ pc' = "top"
    /\ UNCHANGED <<runState, mqttVars, todo, errorTimer>>

-----------------------------------------------------------------------------
(* STATE_RECOVERY and STATE_DELAY.                                         *)

\* (Bug: the MQTT session is not ended.)
umqtt_DisconnectNot ==
    /\ InState("STATE_RECOVERY")
    /\ pc' = "rec_net"
    /\ UNCHANGED <<netVars, runState, mqttVars, todo, timers>>

\* umqtt_Disconnect writes a DISCONNECT packet whatever its status.  The session
\* is over when that succeeds; what a failure leaves is not known.
umqtt_Disconnect ==
    /\ InState("STATE_RECOVERY")
    /\ netWritePacket
    /\ umqtt' \in IF written' THEN {"disconnected"} ELSE {umqtt, "disconnected"}
    /\ pc' = "rec_net"
    /\ UNCHANGED <<runState, connectOn, connackOn, todo, timers>>

\* (Bug: net_Disconnect is left out.)
RecoverNetNot ==
    /\ pc = "rec_net"
    /\ pc' = "rec_delay"
    /\ UNCHANGED <<netVars, runState, mqttVars, todo, timers>>

RecoverNet ==
    /\ pc = "rec_net"
    /\ net_Disconnect
    /\ pc' = "rec_delay"
    /\ UNCHANGED <<runState, mqttVars, todo, timers>>

StartDelay ==
    /\ pc = "rec_delay"
    /\ errorTimer' = ErrorTicks
    /\ runState' = "STATE_DELAY"
    /\ pc' = "top"
    /\ UNCHANGED <<netVars, mqttVars, todo, upTimeReportTimer>>

Delay ==
    /\ InState("STATE_DELAY")
    /\ runState' = IF errorTimer = 0 THEN "STATE_WAIT_IP" ELSE runState
    /\ pc' = "top"
    /\ UNCHANGED <<netVars, mqttVars, todo, timers>>

-----------------------------------------------------------------------------
\* One step of main() between two calls.
MainStep ==
    /\ call = "idle"
    /\ \/ CheckDisconnected \/ ClearDisconnected
       \/ WaitIp \/ NextState \/ WaitNet \/ umqtt_Connect \/ ConnectSent
       \/ WaitMqtt \/ Announce
       \/ umqtt_Run \/ umqtt_DecodePacket \/ umqtt_Timed \/ RunResult \/ ReportUptime
       \/ umqtt_Disconnect \/ RecoverNet \/ StartDelay \/ Delay

\* The SysTick interrupt brings both timers nearer to their end.
SysTick ==
    /\ errorTimer > 0 \/ upTimeReportTimer > 0
    /\ errorTimer' = IF errorTimer > 0 THEN errorTimer - 1 ELSE 0
    /\ upTimeReportTimer' = IF upTimeReportTimer > 0 THEN upTimeReportTimer - 1 ELSE 0
    /\ UNCHANGED <<netVars, runState, pc, mqttVars, todo>>

\* The processor executes main(), in a call or between calls.
Main == fault = "none" /\ (MainStep \/ (CallStep /\ UNCHANGED appVars))

Next ==
    \/ Main
    \/ fault = "none" /\ Interrupt /\ UNCHANGED appVars
    \/ fault = "none" /\ SysTick
    \/ Halted /\ UNCHANGED appVars

Spec == Init /\ [][Next]_vars

\* main() runs whenever no interrupt does, SysTick keeps coming, and lwIP
\* sooner or later establishes a connection or gives up on it.
ConnectResolves(c) ==
    /\ fault = "none"
    /\ pcb[c].st = "connecting" /\ (LwipConnected(c) \/ LwipError(c))
    /\ UNCHANGED appVars

Fairness ==
    /\ WF_vars(Main)
    /\ WF_vars(fault = "none" /\ SysTick)
    /\ \A c \in Conn : WF_vars(ConnectResolves(c))

FairSpec == Spec /\ Fairness

-----------------------------------------------------------------------------
\* The state of main(), on top of that of net_client.c.
TypeOK ==
    /\ NetTypeOK
    /\ runState \in RunState /\ pc \in Location
    /\ umqtt \in {"disconnected", "pending", "connected"}
    /\ todo \in 0..Announcements
    /\ errorTimer \in 0..ErrorTicks /\ upTimeReportTimer \in 0..ReportTicks
    /\ connectOn \in Conn \cup {NoPcb} /\ connackOn \in Conn \cup {NoPcb}

\* main() between two rounds of its loop, or about to enter the switch.
AtLoopHead == call = "idle" /\ pc \in {"top", "state"}

\* main() never goes on as if there were a connection when there is none and
\* it has not been told: whenever an interrupt drops the connection, also
\* between the test and the clearing of netWasDisconnected or while net_Connect
\* returns, the flag is up at the head of the loop.
LossIsNoticed ==
    /\ call = "idle" /\ pc = "top" /\ hNet = NoPcb
    /\ runState \in {"STATE_WAIT_NET", "STATE_WAIT_MQTT", "STATE_RUN_MQTT"}
    => netWasDisconnected

\* A disconnect notice never outlives the connection it is about: while the
\* flag is up there is no connection, so main() never tears down the next one
\* because of the last one.
NoticeIsNotStale == netWasDisconnected => hNet = NoPcb

\* When main() waits for an address or out the recovery delay the connection
\* has been taken down, whichever of net_Disconnect and net_ErrorCb did it:
\* net_Connect never overwrites a handle, and no callback is outstanding.
DownMeansDown ==
    AtLoopHead /\ runState \in {"STATE_WAIT_IP", "STATE_DELAY"} =>
        /\ hNet = NoPcb /\ ~isConnected
        /\ \A c \in Conn : Live(c) => pcb[c].cb = {}

\* umqtt is asked to connect only when it has no session under way, so it does
\* not refuse with CONNECTED or CONNECT_PENDING: every way to the next connect
\* leads through an umqtt_Disconnect (the last write there was).  The one
\* exception is that umqtt_Disconnect could not write its packet.
ConnectIsNeverRefused == pc = "mqtt_connect" /\ written => umqtt = "disconnected"

\* main() is one of the applications module NetClient allows, so that what is
\* checked there of net_client.c holds in this program: main() calls into it
\* one function at a time and connects only when it has no connection.
MainIsANetClient == NetSpec

\* Every notice of a lost connection takes main() back to the start, through
\* recovery and its delay, unless the processor hangs on the way: none is
\* overwritten, and no round of the loop waits for ever.
EveryLossIsRecoveredFrom ==
    netWasDisconnected ~> (runState = "STATE_WAIT_IP" \/ fault # "none")

\* Waiting for the TCP connection ends, with a connection or in recovery: the
\* error callback main() relies on is registered before tcp_connect.
WaitForNetEnds ==
    runState = "STATE_WAIT_NET" ~> (runState # "STATE_WAIT_NET" \/ fault # "none")

-----------------------------------------------------------------------------
(* What the comments of the program say and the program does not do.       *)

\* "If network is disconnected at any point, then reset the state machine"
\* (mcu_test.c): recovering from a lost connection gives lwIP no null handle.
RecoveryKeepsRunning == fault # "null_pcb"

\* "closes it and resets everything" (net_client.c): the CONNACK that completes
\* an MQTT connect came over the connection the CONNECT was sent on.
SessionIsOfThisConnection == umqtt = "connected" => connackOn = connectOn
=============================================================================
